---- MODULE Spec2Model ----
(***************************************************************************)
(* The gameplay message routers of UGCGameplayMessageRouter:               *)
(*   UGameplayMessageSubsystem       the global router, listeners keyed by *)
(*                                   message struct type                   *)
(*   UGameplayWorldMessageSubsystem  the spatial router, listeners keyed   *)
(*                                   by grid cell                          *)
(* Both dispatch synchronously on the calling thread.  A callback may call *)
(* back into a router (Register, Unregister, CancelMessage, Broadcast), so *)
(* the model keeps the call stack of BroadcastMessageInternal activations  *)
(* and runs the dispatch loop one listener at a time.                      *)
(***************************************************************************)
EXTENDS Integers, Sequences, FiniteSets, TLC

VARIABLES
    ListenerMap,              \* global router: struct type -> FChannelListenerList
    BroadcastResultCache,     \* global router: the shared per-broadcast result
    GridListenerMap,          \* spatial router: grid id -> FGridListenerList
    HandleToSpatialMap,       \* spatial router: handle id -> FListenerSpatialInfo
    GlobalHandleID,           \* spatial router: function-static handle counter
    WorldBroadcastResultCache,\* spatial router: the shared per-broadcast result
    stack,                    \* activations of BroadcastMessageInternal, innermost last
    handles,                  \* the valid handles callers hold
    nextCallback,             \* identity given to the next registered callback
    destroyed,                \* UObjects (targets, struct types) that were destroyed
    registeredInCallback,     \* history: callbacks registered while a broadcast ran
    crashed,                  \* a check() failed and aborted the process
    ReceivedMessagePayloadPtr \* async listen action -> the broadcast whose payload it points to

vars == <<ListenerMap, BroadcastResultCache, GridListenerMap, HandleToSpatialMap,
          GlobalHandleID, WorldBroadcastResultCache, stack, handles, nextCallback,
          destroyed, registeredInCallback, crashed, ReceivedMessagePayloadPtr>>

gvars == <<ListenerMap, BroadcastResultCache>>
wvars == <<GridListenerMap, HandleToSpatialMap, GlobalHandleID, WorldBroadcastResultCache>>

(***************************************************************************)
(* Bounds of the model.                                                    *)
(***************************************************************************)
\* registrations made in one behaviour
MaxListeners == 3
\* depth of nested broadcasts
MaxDepth == 2
\* router calls one callback makes before it returns
MaxCalls == 1
\* registrations made in one behaviour of SpecRegister
MaxOrdered == 4
\* unregister calls made with one handle
MaxUnregisterCalls == 2
\* registrations made in one behaviour of SpecHandle
MaxHandles == 2
\* bits of a cell coordinate in the model; a grid id has twice as many
WordBits == 8

(***************************************************************************)
(* Values.                                                                 *)
(***************************************************************************)
\* a null UObject pointer (TWeakObjectPtr explicitly null)
NoObject == "null"

\* EGameplayMessageMatch
ExactMatch == "ExactMatch"
PartialMatch == "PartialMatch"

\* gameplay tags are paths of segments: A, A.B, A.B.C
TagA == <<"A">>
TagAB == <<"A", "B">>
TagABC == <<"A", "B", "C">>
TagX == <<"X">>

\* FGameplayMessageBroadcastResult after Reset()
ResetResult == [bCancelled |-> FALSE, bInterrupted |-> FALSE]

\* a result that keeps the flags it has
ResetNothing(Result) == Result

\* FGameplayMessageBroadcastResult::Reset
Reset(Result) == ResetResult

Range(s) == {s[i] : i \in 1..Len(s)}

\* the callbacks of a listener array, in order
Callbacks(arr) == [i \in 1..Len(arr) |-> arr[i].ReceivedCallback]

(***************************************************************************)
(* Engine primitives the routers rely on.                                  *)
(***************************************************************************)
\* a weak pointer that stays valid when its object is destroyed
WeakIsSet(p) == p /= NoObject

\* TWeakObjectPtr::IsValid: the pointer names an object that still exists
WeakIsValid(p) == p /= NoObject /\ p \notin destroyed

\* TWeakObjectPtr::IsExplicitlyNull: the pointer was never set to an object
IsExplicitlyNull(p) == p = NoObject

\* TWeakObjectPtr::operator==: same object, or both resolve to nullptr
WeakEquals(a, b) == a = b \/ (~WeakIsValid(a) /\ ~WeakIsValid(b))

\* FGameplayTag::MatchesTagExact
MatchesTagExact(Channel, Other) == Channel = Other

\* a test turned round: Channel is Other or one of its ancestors
MatchesTagAncestors(Channel, Other) ==
    /\ Len(Channel) <= Len(Other)
    /\ SubSeq(Other, 1, Len(Channel)) = Channel

\* FGameplayTag::MatchesTag: Channel is Other or one of its descendants
MatchesTag(Channel, Other) ==
    /\ Len(Other) <= Len(Channel)
    /\ SubSeq(Channel, 1, Len(Other)) = Other

\* TArray::Insert at a 1-based index
InsertAt(arr, Index, Entry) ==
    SubSeq(arr, 1, Index - 1) \o <<Entry>> \o SubSeq(arr, Index, Len(arr))

\* a removal that drops the last element, whatever the index
RemoveLast(arr, Index) == SubSeq(arr, 1, Len(arr) - 1)

\* TArray::RemoveAtSwap: the last element fills the hole
RemoveAtSwap(arr, Index) ==
    LET n == Len(arr) IN
    IF Index = n THEN SubSeq(arr, 1, n - 1)
    ELSE [i \in 1..(n - 1) |-> IF i = Index THEN arr[n] ELSE arr[i]]

\* a search that stops at the first entry, whatever its handle id
IndexOfFirst(arr, HandleID) == IF Len(arr) = 0 THEN 0 ELSE 1

\* TArray::IndexOfByPredicate on the handle id; 0 stands for INDEX_NONE
IndexOfHandle(arr, HandleID) ==
    IF \E i \in 1..Len(arr) : arr[i].HandleID = HandleID
    THEN CHOOSE i \in 1..Len(arr) :
            /\ arr[i].HandleID = HandleID
            /\ \A j \in 1..(i - 1) : arr[j].HandleID /= HandleID
    ELSE 0

\* TMap::Add / TMap::Remove on a function whose domain is the key set
MapPut(m, k, v) == [x \in DOMAIN m \cup {k} |-> IF x = k THEN v ELSE m[x]]
MapRemove(m, k) == [x \in DOMAIN m \ {k} |-> m[x]]

(***************************************************************************)
(* The call stack.                                                         *)
(***************************************************************************)
Depth == Len(stack)
Top == stack[Depth]

\* the process runs, and code outside any broadcast or the callback of the
\* innermost broadcast is running
CanCall ==
    /\ ~crashed
    /\ IF Depth = 0 THEN TRUE ELSE Top.phase = "callback" /\ Top.calls < MaxCalls

\* the innermost activation of a router's broadcast, 0 when it has none
Innermost(router) ==
    IF \E i \in 1..Depth : stack[i].router = router
    THEN CHOOSE i \in 1..Depth :
            /\ stack[i].router = router
            /\ \A j \in (i + 1)..Depth : stack[j].router /= router
    ELSE 0

\* history: the listeners for which an unregister call has returned
UnregisteredCallbacks ==
    {h.Callback : h \in {g \in handles : g.Subsystem /= "Other" /\ g.Calls + g.Passed > 0}}

(***************************************************************************)
(* Activation records.  The fields from calls to removedPending are        *)
(* history: they record what happened during the broadcast and are read by *)
(* no operation.                                                           *)
(***************************************************************************)
\* the message struct the sender of the broadcast at nesting level Level
\* passes: each level sends a value of its own
SentPayload(Level) == <<"sent", Level>>

\* no GetPayload call was made
NoPayload == [StructProp |-> NoObject, bSuccess |-> FALSE, OutPayload |-> NoObject,
              Message |-> NoObject]

Frame(router, Channel, StructType, TargetObject, WorldPosition, Listeners) ==
    [router        |-> router,
     Channel       |-> Channel,
     StructType    |-> StructType,
     TargetObject  |-> TargetObject,
     WorldPosition |-> WorldPosition,
     ListenerArray |-> Listeners,        \* the by-value copy that is iterated
     Index         |-> 0,                \* entries of ListenerArray already visited
     phase         |-> "loop",           \* "callback": the callback of entry Index runs;
                                         \* "return": at the return statement
     Result        |-> ResetResult,      \* the value returned, once phase = "return"
     calls         |-> 0,                \* router calls made by the running callback
     invoked       |-> <<>>,             \* callbacks invoked so far, in order
     own           |-> ResetResult,      \* flags as this broadcast's own listeners set them
     sawInterrupt  |-> FALSE,            \* CancelMessage(_, true) was called meanwhile
     sawCancel     |-> FALSE,            \* CancelMessage was called meanwhile
     leftInterrupted |-> FALSE,          \* a callback returned with bInterrupted set
     startCallbacks |-> nextCallback,    \* callbacks that existed when it started
     liveAtStart   |-> {Listeners[i].ReceivedCallback : i \in 1..Len(Listeners)},
     unregisteredAtStart |-> UnregisteredCallbacks, \* listeners unregistered before
     removedPending |-> {},              \* unvisited entries unregistered meanwhile
     Payload       |-> SentPayload(Depth + 1), \* the struct MessageBytes points to
     delivery      |-> "none",           \* where the running callback is, when it is
                                         \* HandleMessageReceived of an async action
     got           |-> NoPayload,        \* what its last GetPayload call returned
     overrode      |-> NoObject]         \* what the last OverridePayload call of a
                                         \* matching type passed

SetTop(f) == [stack EXCEPT ![Depth] = f]

\* the stack after the running callback, if any, made one more router call
Called == IF Depth = 0 THEN stack ELSE [stack EXCEPT ![Depth].calls = @ + 1]

\* history: CancelMessage on a router is charged to its innermost broadcast
NoteCancel(router, bCancel, bInterrupt) ==
    [i \in 1..Depth |->
        IF stack[i].router /= router THEN Called[i]
        ELSE [Called[i] EXCEPT
                !.own = IF i = Innermost(router)
                        THEN [bCancelled |-> bCancel, bInterrupted |-> bInterrupt]
                        ELSE @,
                !.sawInterrupt = @ \/ bInterrupt,
                !.sawCancel = TRUE]]

\* history: callbacks that left a router's live registry
NoteRemoved(router, gone) ==
    [i \in 1..Depth |->
        IF stack[i].router /= router THEN Called[i]
        ELSE [Called[i] EXCEPT !.removedPending = @ \cup
                {stack[i].ListenerArray[k].ReceivedCallback :
                    k \in {j \in (stack[i].Index + 1)..Len(stack[i].ListenerArray) :
                            stack[i].ListenerArray[j].ReceivedCallback \in gone}}]]

(***************************************************************************)
(* Listener handles.  Class is the C++ type of the handle; Subsystem,      *)
(* StructType and ID are its members.  Callback (the listener it was       *)
(* issued for), IssuedID (the id it was issued with), Calls (Unregister()  *)
(* calls made on it), Passed (times it was passed to UnregisterListener)   *)
(* Moved (an UpdateLocation call with it returned true), NewRadius (the     *)
(* radius passed to the last such call) and Refused (an UpdateLocation     *)
(* call with it returned false) are history.                               *)
(***************************************************************************)
\* the handle a registration returns
NewHandle(Class, StructType, ID) ==
    [Class |-> Class, Subsystem |-> Class, StructType |-> StructType, ID |-> ID,
     Callback |-> nextCallback, IssuedID |-> ID, Calls |-> 0, Passed |-> 0,
     Moved |-> FALSE, NewRadius |-> 0, Refused |-> FALSE]

\* a handle another router instance of the same class returned for one of
\* its own registrations
ForeignHandle(Class, StructType, ID) ==
    [Class |-> Class, Subsystem |-> "Other", StructType |-> StructType, ID |-> ID,
     Callback |-> 0, IssuedID |-> ID, Calls |-> 0, Passed |-> 0, Moved |-> FALSE,
     NewRadius |-> 0, Refused |-> FALSE]

\* a default-constructed handle: no router, ID = 0
DefaultHandle(Class) ==
    [Class |-> Class, Subsystem |-> NoObject, StructType |-> NoObject, ID |-> 0,
     Callback |-> 0, IssuedID |-> 0, Calls |-> 0, Passed |-> 0, Moved |-> FALSE,
     NewRadius |-> 0, Refused |-> FALSE]

\* a validity test every handle passes
HandleAlwaysValid(Handle) == TRUE

\* Handle::IsValid
HandleIsValid(Handle) == Handle.ID /= 0

\* an Unregister() that leaves the members of the handle as they are
UnclearedHandle(Handle) == Handle

\* Subsystem.Reset(); StructType = nullptr; ID = 0
ClearedHandle(Handle) ==
    [Handle EXCEPT !.Subsystem = NoObject, !.StructType = NoObject, !.ID = 0]

\* the handles the callers hold after one of them became New
ReplaceHandle(Handle, New) == (handles \ {Handle}) \cup {New}

(***************************************************************************)
(* UGameplayMessageSubsystem, the global router.                           *)
(***************************************************************************)
EmptyChannelListenerList == [Listeners |-> <<>>, HandleID |-> 0]

\* the callbacks registered in the global router for a struct type
GRegistered(StructType) ==
    IF StructType \in DOMAIN ListenerMap
    THEN {ListenerMap[StructType].Listeners[i].ReceivedCallback :
            i \in 1..Len(ListenerMap[StructType].Listeners)}
    ELSE {}

\* a scan that also passes entries of the same priority: ties newest first
PriorityInsertIndexTiesFirst(Listeners, Priority) ==
    LET RECURSIVE Scan(_, _)
        Scan(i, Index) ==
            IF i >= 1 /\ Listeners[i].Priority >= Priority
            THEN Scan(i - 1, i)
            ELSE Index
    IN Scan(Len(Listeners), Len(Listeners) + 1)

\* "Find index by priority to insert": scan from the tail while the entry's
\* priority is greater than the new one
PriorityInsertIndex(Listeners, Priority) ==
    LET RECURSIVE Scan(_, _)
        Scan(i, Index) ==
            IF i >= 1 /\ Listeners[i].Priority > Priority
            THEN Scan(i - 1, i)
            ELSE Index
    IN Scan(Len(Listeners), Len(Listeners) + 1)

GRegisterListenerInternal(Channel, StructType, MatchType, Priority, TargetObject) ==
    /\ CanCall
    /\ LET List == IF StructType \in DOMAIN ListenerMap
                   THEN ListenerMap[StructType]
                   ELSE EmptyChannelListenerList
           Index == PriorityInsertIndex(List.Listeners, Priority)
           Entry == [ReceivedCallback   |-> nextCallback,
                     ListenerStructType |-> StructType,
                     Channel            |-> Channel,
                     HandleID           |-> List.HandleID + 1,
                     MatchType          |-> MatchType,
                     TargetObject       |-> TargetObject,
                     Priority           |-> Priority]
       IN /\ ListenerMap' = MapPut(ListenerMap, StructType,
                                [Listeners |-> InsertAt(List.Listeners, Index, Entry),
                                 HandleID  |-> Entry.HandleID])
          /\ handles' = handles \cup {NewHandle("G", StructType, Entry.HandleID)}
    /\ nextCallback' = nextCallback + 1
    /\ stack' = Called
    /\ registeredInCallback' = IF Depth > 0
                               THEN registeredInCallback \cup {nextCallback}
                               ELSE registeredInCallback
    /\ UNCHANGED <<BroadcastResultCache, wvars, destroyed, crashed>>
    /\ UNCHANGED ReceivedMessagePayloadPtr

\* RegisterListener(Channel, Params): registers when Params carries a callback
\* and returns a default-constructed handle when it carries none
GRegisterListener(Channel, StructType, Params) ==
    IF Params.OnMessageReceivedCallback
    THEN GRegisterListenerInternal(Channel, StructType, Params.MatchType,
                                   Params.Priority, Params.TargetObject)
    ELSE /\ CanCall
         /\ handles' = handles \cup {DefaultHandle("G")}
         /\ stack' = Called
         /\ UNCHANGED <<gvars, wvars, nextCallback, destroyed, registeredInCallback,
                        crashed, ReceivedMessagePayloadPtr>>

GUnregisterListenerInternal(Map, StructType, HandleID) ==
    IF StructType \in DOMAIN Map
    THEN LET List == Map[StructType]
             MatchIndex == IndexOfHandle(List.Listeners, HandleID)
             Listeners == IF MatchIndex /= 0
                          THEN RemoveAtSwap(List.Listeners, MatchIndex)
                          ELSE List.Listeners
         IN IF Len(Listeners) = 0
            THEN MapRemove(Map, StructType)
            ELSE MapPut(Map, StructType, [List EXCEPT !.Listeners = Listeners])
    ELSE Map

\* UnregisterListener(Handle): the handle is passed by value, the caller keeps
\* its own.  check(Handle.Subsystem == this) aborts the process in builds that
\* compile checks in and is no code at all in builds that compile them out.
GUnregisterListener(Handle) ==
    /\ CanCall
    /\ Handle \in handles
    /\ Handle.Class = "G"
    /\ IF HandleIsValid(Handle)
       THEN IF Handle.Subsystem = "G"
            THEN /\ ListenerMap' = GUnregisterListenerInternal(ListenerMap,
                                        Handle.StructType, Handle.ID)
                 /\ UNCHANGED crashed
            ELSE \/ /\ crashed' = TRUE
                    /\ UNCHANGED ListenerMap
                 \/ /\ ListenerMap' = GUnregisterListenerInternal(ListenerMap,
                                            Handle.StructType, Handle.ID)
                    /\ UNCHANGED crashed
       ELSE UNCHANGED <<ListenerMap, crashed>>
    /\ stack' = NoteRemoved("G", UNION {GRegistered(t) \ GRegistered(t)' :
                                            t \in DOMAIN ListenerMap})
    /\ handles' = ReplaceHandle(Handle, [Handle EXCEPT !.Passed = @ + 1])
    /\ UNCHANGED <<BroadcastResultCache, wvars, nextCallback, destroyed, registeredInCallback>>
    /\ UNCHANGED ReceivedMessagePayloadPtr

\* Handle.Unregister(): with a live Subsystem pointer it unregisters through
\* that router and clears the handle; a cleared handle does nothing
GHandleUnregister(Handle) ==
    /\ CanCall
    /\ Handle \in handles
    /\ Handle.Class = "G"
    /\ Handle.Subsystem \in {"G", NoObject}
    /\ IF Handle.Subsystem = "G"
       THEN /\ ListenerMap' = IF HandleIsValid(Handle)
                              THEN GUnregisterListenerInternal(ListenerMap,
                                        Handle.StructType, Handle.ID)
                              ELSE ListenerMap
            /\ handles' = ReplaceHandle(Handle, [ClearedHandle(Handle) EXCEPT !.Calls = @ + 1])
       ELSE /\ UNCHANGED ListenerMap
            /\ handles' = ReplaceHandle(Handle, [Handle EXCEPT !.Calls = @ + 1])
    /\ stack' = NoteRemoved("G", UNION {GRegistered(t) \ GRegistered(t)' :
                                            t \in DOMAIN ListenerMap})
    /\ UNCHANGED <<BroadcastResultCache, wvars, nextCallback, destroyed,
                   registeredInCallback, crashed>>
    /\ UNCHANGED ReceivedMessagePayloadPtr

GCancelMessage(bCancel, bInterrupt) ==
    /\ CanCall
    /\ BroadcastResultCache' = [bCancelled |-> bCancel, bInterrupted |-> bInterrupt]
    /\ stack' = NoteCancel("G", bCancel, bInterrupt)
    /\ UNCHANGED <<ListenerMap, wvars, handles, nextCallback, destroyed, registeredInCallback, crashed>>
    /\ UNCHANGED ReceivedMessagePayloadPtr

\* a loop that iterates the live list of the map instead of its copy
GListenerArrayLive(f) ==
    IF f.StructType \in DOMAIN ListenerMap
    THEN ListenerMap[f.StructType].Listeners
    ELSE <<>>

\* the array the loop of a global broadcast iterates
GListenerArray(f) == f.ListenerArray

\* the tag test of the loop
TagMatches(Channel, Listener) ==
    LET bMatchAny == Listener.MatchType = PartialMatch /\ MatchesTag(Channel, Listener.Channel)
        bMatchExact == Listener.MatchType = ExactMatch /\ MatchesTagExact(Channel, Listener.Channel)
    IN bMatchAny \/ bMatchExact

\* a type test that lets every entry pass
TypeNeverDiffers(StructType, Listener) == FALSE

\* "StructType != Listener.ListenerStructType.Get()": TRUE when the entry is
\* skipped
TypeDiffers(StructType, Listener) == StructType /= Listener.ListenerStructType

\* the target test of the loop: TRUE when the entry is skipped
GTargetSkips(TargetObject, Listener) ==
    /\ ~IsExplicitlyNull(Listener.TargetObject)
    /\ ~WeakEquals(Listener.TargetObject, TargetObject)

\* a loop that stops on the cancelled flag instead of the interrupted flag
GShouldBreakOnCancelled == BroadcastResultCache.bCancelled

\* the loop's test after a callback returned
GShouldBreak == BroadcastResultCache.bInterrupted

\* The loop of BroadcastMessageInternal from activation f on, with the live
\* map Map and the result cache Cache, up to the call of the next callback or
\* to the return statement: the activation and the map at that point.
RECURSIVE GLoop(_, _, _)
GLoop(f, Map, Cache) ==
    LET arr == GListenerArray(f) IN
    IF f.Index >= Len(arr)
    THEN [frame |-> [f EXCEPT !.phase = "return", !.Result = Cache], map |-> Map]
    ELSE LET Listener == arr[f.Index + 1]
             g == [f EXCEPT !.Index = @ + 1]
         IN IF ~WeakIsValid(Listener.ListenerStructType)
            THEN GLoop(g, GUnregisterListenerInternal(Map, f.StructType, Listener.HandleID),
                       Cache)
            ELSE IF \/ TypeDiffers(f.StructType, Listener)
                    \/ GTargetSkips(f.TargetObject, Listener)
                    \/ ~TagMatches(f.Channel, Listener)
                 THEN GLoop(g, Map, Cache)
                 ELSE [frame |-> [g EXCEPT !.phase = "callback",
                                           !.delivery = "called",
                                           !.calls = 0,
                                           !.invoked = Append(@, Listener.ReceivedCallback)],
                       map |-> Map]

\* BroadcastMessageInternal is called and runs to its first callback, or to
\* its return statement when it calls none
GBroadcastMessageInternal(Channel, StructType, TargetObject) ==
    /\ CanCall
    /\ Depth < MaxDepth
    /\ BroadcastResultCache' = Reset(BroadcastResultCache)
    /\ IF StructType \in DOMAIN ListenerMap
       THEN LET r == GLoop(Frame("G", Channel, StructType, TargetObject, NoObject,
                                 ListenerMap[StructType].Listeners),
                           ListenerMap, Reset(BroadcastResultCache))
            IN /\ stack' = Append(Called, r.frame)
               /\ ListenerMap' = r.map
       ELSE /\ stack' = Append(Called,
                    [Frame("G", Channel, StructType, TargetObject, NoObject, <<>>)
                        EXCEPT !.phase = "return",
                               !.Result = Reset(BroadcastResultCache)])
            /\ UNCHANGED ListenerMap
    /\ UNCHANGED <<wvars, handles, nextCallback, destroyed, registeredInCallback, crashed>>
    /\ UNCHANGED ReceivedMessagePayloadPtr

\* the running callback returns; the loop tests bInterrupted and goes on to
\* the next callback or to the return statement
GCallbackReturn ==
    /\ ~crashed
    /\ Depth > 0
    /\ Top.router = "G"
    /\ Top.phase = "callback"
    /\ LET f == [Top EXCEPT !.leftInterrupted = BroadcastResultCache.bInterrupted]
       IN IF GShouldBreak
          THEN /\ stack' = SetTop([f EXCEPT !.phase = "return",
                                            !.Result = BroadcastResultCache])
               /\ UNCHANGED ListenerMap
          ELSE LET r == GLoop(f, ListenerMap, BroadcastResultCache)
               IN /\ stack' = SetTop(r.frame)
                  /\ ListenerMap' = r.map
    /\ UNCHANGED <<BroadcastResultCache, wvars, handles, nextCallback, destroyed, registeredInCallback, crashed>>
    /\ UNCHANGED ReceivedMessagePayloadPtr

\* BroadcastMessageInternal returns its result by value to its caller
BroadcastReturn ==
    /\ ~crashed
    /\ Depth > 0
    /\ Top.phase = "return"
    /\ stack' = SubSeq(stack, 1, Depth - 1)
    /\ UNCHANGED <<gvars, wvars, handles, nextCallback, destroyed, registeredInCallback, crashed>>
    /\ UNCHANGED ReceivedMessagePayloadPtr

(***************************************************************************)
(* UGameplayWorldMessageSubsystem, the spatial router.  World coordinates  *)
(* are integers (UE units).  A grid id packs two signed words of WordBits   *)
(* bits into one signed integer of twice that width, as the code packs two  *)
(* int32 into an int64.                                                     *)
(***************************************************************************)
GRID_SIZE == 1600

\* static_cast to a signed integer of the given width (two's complement)
ToSigned(v, bits) ==
    LET m == v % (2 ^ bits)
    IN IF m >= 2 ^ (bits - 1) THEN m - 2 ^ bits ELSE m

\* FMath::FloorToInt(v / GRID_SIZE)
FloorToGrid(v) == v \div GRID_SIZE

\* a packing that leaves out the mask of the low word
PackGridIDUnmasked(GridX, GridY) ==
    ToSigned(GridX * (2 ^ WordBits) + GridY, 2 * WordBits)

\* (int64(GridX) << 32) | (int64(GridY) & 0xFFFFFFFF): high word X, low word Y.
\* The shifted X has a zero low word, so the bitwise or is a sum.
PackGridID(GridX, GridY) ==
    ToSigned(GridX * (2 ^ WordBits), 2 * WordBits) + (GridY % (2 ^ WordBits))

\* static_cast<int32>(GridID >> 32)
UnpackGridX(GridID) == ToSigned(GridID \div (2 ^ WordBits), WordBits)

\* static_cast<int32>(GridID & 0xFFFFFFFF)
UnpackGridY(GridID) == ToSigned(GridID % (2 ^ WordBits), WordBits)

\* GetGridCenter: the centre of the cell, from the unpacked coordinates
GetGridCenter(GridID) ==
    [X |-> UnpackGridX(GridID) * GRID_SIZE + GRID_SIZE \div 2,
     Y |-> UnpackGridY(GridID) * GRID_SIZE + GRID_SIZE \div 2,
     Z |-> 0]

GetGridID(WorldPosition) ==
    PackGridID(FloorToGrid(WorldPosition.X), FloorToGrid(WorldPosition.Y))

\* a clamp that forgets the upper end
ClampFromBelow(v, lo, hi) == IF v < lo THEN lo ELSE v

\* FMath::Clamp
Clamp(v, lo, hi) == IF v < lo THEN lo ELSE IF v < hi THEN v ELSE hi

\* FVector::DistSquared
DistSquared(a, b) ==
    (a.X - b.X) * (a.X - b.X) + (a.Y - b.Y) * (a.Y - b.Y) + (a.Z - b.Z) * (a.Z - b.Z)

\* the grid cells of the bounding box whose square is within Radius of Center,
\* in the order the two loops add them
GetGridsInRadius(Center, Radius) ==
    LET MinGridX == FloorToGrid(Center.X - Radius)
        MaxGridX == FloorToGrid(Center.X + Radius)
        MinGridY == FloorToGrid(Center.Y - Radius)
        MaxGridY == FloorToGrid(Center.Y + Radius)
        Intersects(GridX, GridY) ==
            LET ClosestPoint ==
                    [X |-> Clamp(Center.X, GridX * GRID_SIZE, (GridX + 1) * GRID_SIZE),
                     Y |-> Clamp(Center.Y, GridY * GRID_SIZE, (GridY + 1) * GRID_SIZE),
                     Z |-> Center.Z]
            IN DistSquared(Center, ClosestPoint) <= Radius * Radius
        RECURSIVE Column(_, _)
        Column(GridX, GridY) ==
            IF GridY > MaxGridY THEN <<>>
            ELSE (IF Intersects(GridX, GridY) THEN <<PackGridID(GridX, GridY)>> ELSE <<>>)
                 \o Column(GridX, GridY + 1)
        RECURSIVE Rows(_)
        Rows(GridX) ==
            IF GridX > MaxGridX THEN <<>>
            ELSE Column(GridX, MinGridY) \o Rows(GridX + 1)
    IN Rows(MinGridX)

\* the cells a listener is kept in: GetGridsInRadius, or the cell of the
\* position when that is empty
RelevantGrids(ListenPosition, ListenRadius) ==
    LET Grids == GetGridsInRadius(ListenPosition, ListenRadius)
    IN IF Len(Grids) = 0 THEN <<GetGridID(ListenPosition)>> ELSE Grids

EmptyGridListenerList == [Listeners |-> <<>>, HandleID |-> 0]

\* the callbacks registered in the spatial router (in any cell)
WRegistered ==
    UNION {{GridListenerMap[g].Listeners[i].ReceivedCallback :
                i \in 1..Len(GridListenerMap[g].Listeners)} : g \in DOMAIN GridListenerMap}

\* the loop "Add listener to all relevant grids"
RECURSIVE AddToGrids(_, _, _)
AddToGrids(Map, Grids, ListenerData) ==
    IF Len(Grids) = 0 THEN Map
    ELSE LET GridID == Head(Grids)
             GridList == IF GridID \in DOMAIN Map THEN Map[GridID] ELSE EmptyGridListenerList
             InsertIndex == PriorityInsertIndex(GridList.Listeners, ListenerData.Priority)
         IN AddToGrids(
                MapPut(Map, GridID,
                    [GridList EXCEPT !.Listeners = InsertAt(@, InsertIndex, ListenerData)]),
                Tail(Grids), ListenerData)

WRegisterListenerInternal(Channel, StructType, MatchType, Priority, ListenPosition, ListenRadius) ==
    /\ CanCall
    /\ LET ListenerData == [ReceivedCallback   |-> nextCallback,
                            ListenerStructType |-> StructType,
                            Channel            |-> Channel,
                            MatchType          |-> MatchType,
                            Priority           |-> Priority,
                            ListenPosition     |-> ListenPosition,
                            ListenRadius       |-> ListenRadius,
                            HandleID           |-> GlobalHandleID + 1]
       IN /\ GlobalHandleID' = GlobalHandleID + 1
          /\ GridListenerMap' = AddToGrids(GridListenerMap,
                                    RelevantGrids(ListenPosition, ListenRadius), ListenerData)
          /\ HandleToSpatialMap' = MapPut(HandleToSpatialMap, ListenerData.HandleID,
                                    [ListenPosition |-> ListenPosition,
                                     ListenRadius   |-> ListenRadius])
          /\ handles' = handles \cup {NewHandle("W", StructType, ListenerData.HandleID)}
    /\ nextCallback' = nextCallback + 1
    /\ stack' = Called
    /\ registeredInCallback' = IF Depth > 0
                               THEN registeredInCallback \cup {nextCallback}
                               ELSE registeredInCallback
    /\ UNCHANGED <<gvars, WorldBroadcastResultCache, destroyed, crashed>>
    /\ UNCHANGED ReceivedMessagePayloadPtr

\* RegisterListener(Channel, Params) of the spatial router
WRegisterListener(Channel, StructType, Params) ==
    IF Params.OnMessageReceivedCallback
    THEN WRegisterListenerInternal(Channel, StructType, Params.MatchType,
                                   Params.Priority, Params.ListenPosition,
                                   Params.ListenRadius)
    ELSE /\ CanCall
         /\ handles' = handles \cup {DefaultHandle("W")}
         /\ stack' = Called
         /\ UNCHANGED <<gvars, wvars, nextCallback, destroyed, registeredInCallback,
                        crashed, ReceivedMessagePayloadPtr>>

\* TArray::RemoveAll on the handle id: the other entries keep their order
RemoveAllHandle(arr, HandleID) == SelectSeq(arr, LAMBDA e : e.HandleID /= HandleID)

\* a removal that leaves the cells it emptied in the map
RemoveFromGridsKeepingCells(Map, Grids, HandleID) ==
    [g \in DOMAIN Map |->
        IF g \in Range(Grids)
        THEN [Map[g] EXCEPT !.Listeners = RemoveAllHandle(@, HandleID)]
        ELSE Map[g]]

\* the loop "Remove the listener from all grids where it was registered",
\* followed by "Clean up empty grids"
RECURSIVE RemoveFromGrids(_, _, _)
RemoveFromGrids(Map, Grids, HandleID) ==
    IF Len(Grids) = 0 THEN Map
    ELSE LET GridID == Head(Grids)
         IN IF GridID \in DOMAIN Map
            THEN LET Listeners == RemoveAllHandle(Map[GridID].Listeners, HandleID)
                 IN RemoveFromGrids(
                        IF Len(Listeners) = 0
                        THEN MapRemove(Map, GridID)
                        ELSE MapPut(Map, GridID, [Map[GridID] EXCEPT !.Listeners = Listeners]),
                        Tail(Grids), HandleID)
            ELSE RemoveFromGrids(Map, Tail(Grids), HandleID)

\* a removal from the cell of the listener's position only
WUnregisterGridsOwnCell(Map, Spatial, HandleID) ==
    IF HandleID \notin DOMAIN Spatial THEN Map
    ELSE RemoveFromGrids(Map, <<GetGridID(Spatial[HandleID].ListenPosition)>>, HandleID)

\* UnregisterListenerInternal: the cell map after the call
WUnregisterGrids(Map, Spatial, HandleID) ==
    IF HandleID \notin DOMAIN Spatial THEN Map
    ELSE RemoveFromGrids(Map,
            RelevantGrids(Spatial[HandleID].ListenPosition, Spatial[HandleID].ListenRadius),
            HandleID)

\* UnregisterListenerInternal: the handle index after the call
WUnregisterSpatial(Spatial, HandleID) ==
    IF HandleID \notin DOMAIN Spatial THEN Spatial ELSE MapRemove(Spatial, HandleID)

\* UnregisterListener(Handle): the handle is passed by value, the caller keeps
\* its own.  check(Handle.Subsystem == this) aborts the process in builds that
\* compile checks in and is no code at all in builds that compile them out.
WUnregisterListener(Handle) ==
    /\ CanCall
    /\ Handle \in handles
    /\ Handle.Class = "W"
    /\ IF HandleIsValid(Handle)
       THEN IF Handle.Subsystem = "W"
            THEN /\ GridListenerMap' = WUnregisterGrids(GridListenerMap,
                                            HandleToSpatialMap, Handle.ID)
                 /\ HandleToSpatialMap' = WUnregisterSpatial(HandleToSpatialMap, Handle.ID)
                 /\ UNCHANGED crashed
            ELSE \/ /\ crashed' = TRUE
                    /\ UNCHANGED <<GridListenerMap, HandleToSpatialMap>>
                 \/ /\ GridListenerMap' = WUnregisterGrids(GridListenerMap,
                                                HandleToSpatialMap, Handle.ID)
                    /\ HandleToSpatialMap' = WUnregisterSpatial(HandleToSpatialMap, Handle.ID)
                    /\ UNCHANGED crashed
       ELSE UNCHANGED <<GridListenerMap, HandleToSpatialMap, crashed>>
    /\ stack' = NoteRemoved("W", WRegistered \ WRegistered')
    /\ handles' = ReplaceHandle(Handle, [Handle EXCEPT !.Passed = @ + 1])
    /\ UNCHANGED <<gvars, GlobalHandleID, WorldBroadcastResultCache, nextCallback,
                   destroyed, registeredInCallback>>
    /\ UNCHANGED ReceivedMessagePayloadPtr

\* Handle.Unregister(): with a live Subsystem pointer it unregisters through
\* that router and clears the handle; a cleared handle does nothing
WHandleUnregister(Handle) ==
    /\ CanCall
    /\ Handle \in handles
    /\ Handle.Class = "W"
    /\ Handle.Subsystem \in {"W", NoObject}
    /\ IF Handle.Subsystem = "W"
       THEN /\ GridListenerMap' = IF HandleIsValid(Handle)
                                  THEN WUnregisterGrids(GridListenerMap,
                                            HandleToSpatialMap, Handle.ID)
                                  ELSE GridListenerMap
            /\ HandleToSpatialMap' = IF HandleIsValid(Handle)
                                     THEN WUnregisterSpatial(HandleToSpatialMap, Handle.ID)
                                     ELSE HandleToSpatialMap
            /\ handles' = ReplaceHandle(Handle, [ClearedHandle(Handle) EXCEPT !.Calls = @ + 1])
       ELSE /\ UNCHANGED <<GridListenerMap, HandleToSpatialMap>>
            /\ handles' = ReplaceHandle(Handle, [Handle EXCEPT !.Calls = @ + 1])
    /\ stack' = NoteRemoved("W", WRegistered \ WRegistered')
    /\ UNCHANGED <<gvars, GlobalHandleID, WorldBroadcastResultCache, nextCallback,
                   destroyed, registeredInCallback, crashed>>
    /\ UNCHANGED ReceivedMessagePayloadPtr

\* no grid id at all: a move would leave and join no cell
GridsNotInNone(Grids, Others) == <<>>

\* the members of a sequence of grid ids that are not in another
GridsNotIn(Grids, Others) == SelectSeq(Grids, LAMBDA g : g \notin Range(Others))

\* a search that finds the listener data in no cell
GridsHoldingNone(Map, Grids, HandleID) == <<>>

\* "Find the listener data to copy (from any grid where it exists)": the
\* cells of Grids, in order, that hold an entry of the handle id
GridsHolding(Map, Grids, HandleID) ==
    SelectSeq(Grids, LAMBDA g :
        /\ g \in DOMAIN Map
        /\ \E i \in 1..Len(Map[g].Listeners) : Map[g].Listeners[i].HandleID = HandleID)

\* the entries in the cells that remain keep their position and radius
UpdateInGridsKept(Map, Grids, HandleID, NewListenPosition, ActualNewRadius) == Map

\* "Update existing listeners in grids that remain the same": the first entry
\* of the handle id in each cell of Grids gets the new position and radius
RECURSIVE UpdateInGrids(_, _, _, _, _)
UpdateInGrids(Map, Grids, HandleID, NewListenPosition, ActualNewRadius) ==
    IF Len(Grids) = 0 THEN Map
    ELSE LET GridID == Head(Grids)
             Index == IF GridID \in DOMAIN Map
                      THEN IndexOfHandle(Map[GridID].Listeners, HandleID)
                      ELSE 0
         IN UpdateInGrids(
                IF Index = 0 THEN Map
                ELSE [Map EXCEPT ![GridID].Listeners[Index].ListenPosition = NewListenPosition,
                                 ![GridID].Listeners[Index].ListenRadius = ActualNewRadius],
                Tail(Grids), HandleID, NewListenPosition, ActualNewRadius)

\* UpdateRegisterListenerLocation returns true: the handle is valid, is this
\* router's, is in the handle index, and its entry is found in an old cell
CanUpdateLocation(Handle) ==
    /\ HandleIsValid(Handle)
    /\ Handle.Subsystem = "W"
    /\ Handle.ID \in DOMAIN HandleToSpatialMap
    /\ LET Info == HandleToSpatialMap[Handle.ID]
       IN Len(GridsHolding(GridListenerMap,
                RelevantGrids(Info.ListenPosition, Info.ListenRadius), Handle.ID)) > 0

\* the new radius taken as given, negative or not
ActualRadiusAsGiven(Handle, NewListenRadius) == NewListenRadius

\* a negative new radius keeps the radius the listener has
ActualRadius(Handle, NewListenRadius) ==
    IF NewListenRadius >= 0 THEN NewListenRadius
    ELSE HandleToSpatialMap[Handle.ID].ListenRadius

\* the cell map after a call that returns true
UpdatedGrids(Handle, NewListenPosition, NewListenRadius) ==
    LET Info == HandleToSpatialMap[Handle.ID]
        ActualNewRadius == ActualRadius(Handle, NewListenRadius)
        OldGrids == RelevantGrids(Info.ListenPosition, Info.ListenRadius)
        NewGrids == RelevantGrids(NewListenPosition, ActualNewRadius)
        GridsToRemoveFrom == GridsNotIn(OldGrids, NewGrids)
        GridsToAddTo == GridsNotIn(NewGrids, OldGrids)
        From == Head(GridsHolding(GridListenerMap, OldGrids, Handle.ID))
        ListenerData == GridListenerMap[From].Listeners[
                            IndexOfHandle(GridListenerMap[From].Listeners, Handle.ID)]
        UpdatedListenerData == [ListenerData EXCEPT !.ListenPosition = NewListenPosition,
                                                    !.ListenRadius = ActualNewRadius]
        Removed == RemoveFromGrids(GridListenerMap, GridsToRemoveFrom, Handle.ID)
        Added == AddToGrids(Removed, GridsToAddTo, UpdatedListenerData)
    IN UpdateInGrids(Added, GridsNotIn(OldGrids, GridsToRemoveFrom), Handle.ID,
                     NewListenPosition, ActualNewRadius)

UpdateRegisterListenerLocation(Handle, NewListenPosition, NewListenRadius) ==
    /\ CanCall
    /\ Handle \in handles
    /\ Handle.Class = "W"
    /\ UNCHANGED <<gvars, GlobalHandleID, WorldBroadcastResultCache, nextCallback,
                   destroyed, registeredInCallback, crashed>>
    /\ IF CanUpdateLocation(Handle)
       THEN /\ handles' = ReplaceHandle(Handle, [Handle EXCEPT !.Moved = TRUE,
                                                               !.NewRadius = NewListenRadius])
            /\ HandleToSpatialMap' =
                    [HandleToSpatialMap EXCEPT ![Handle.ID] =
                        [ListenPosition |-> NewListenPosition,
                         ListenRadius   |-> ActualRadius(Handle, NewListenRadius)]]
            /\ GridListenerMap' = UpdatedGrids(Handle, NewListenPosition, NewListenRadius)
       ELSE /\ handles' = ReplaceHandle(Handle, [Handle EXCEPT !.Refused = TRUE])
            /\ UNCHANGED <<GridListenerMap, HandleToSpatialMap>>
    /\ stack' = NoteRemoved("W", WRegistered \ WRegistered')
    /\ UNCHANGED ReceivedMessagePayloadPtr

WCancelMessage(bCancel, bInterrupt) ==
    /\ CanCall
    /\ WorldBroadcastResultCache' = [bCancelled |-> bCancel, bInterrupted |-> bInterrupt]
    /\ stack' = NoteCancel("W", bCancel, bInterrupt)
    /\ UNCHANGED <<gvars, GridListenerMap, HandleToSpatialMap, GlobalHandleID,
                   handles, nextCallback, destroyed, registeredInCallback, crashed>>
    /\ UNCHANGED ReceivedMessagePayloadPtr

\* a loop that iterates the live list of the broadcast's cell instead of its copy
WListenerArrayLive(f) ==
    IF GetGridID(f.WorldPosition) \in DOMAIN GridListenerMap
    THEN GridListenerMap[GetGridID(f.WorldPosition)].Listeners
    ELSE <<>>

\* the array the loop of a spatial broadcast iterates
WListenerArray(f) == f.ListenerArray

\* the distance test of the loop: TRUE when the entry is skipped
WOutOfRange(WorldPosition, Listener) ==
    DistSquared(WorldPosition, Listener.ListenPosition)
        > Listener.ListenRadius * Listener.ListenRadius

\* the loop's test after a callback returned
WShouldBreak == WorldBroadcastResultCache.bInterrupted

\* The loop of BroadcastMessageInternal from activation f on, up to the call
\* of the next callback or to the return statement: the activation, the cell
\* map and the handle index at that point.
RECURSIVE WLoop(_, _, _, _)
WLoop(f, Map, Spatial, Cache) ==
    LET arr == WListenerArray(f) IN
    IF f.Index >= Len(arr)
    THEN [frame |-> [f EXCEPT !.phase = "return", !.Result = Cache],
          map |-> Map, spatial |-> Spatial]
    ELSE LET Listener == arr[f.Index + 1]
             g == [f EXCEPT !.Index = @ + 1]
         IN IF ~WeakIsValid(Listener.ListenerStructType)
            THEN WLoop(g, WUnregisterGrids(Map, Spatial, Listener.HandleID),
                       WUnregisterSpatial(Spatial, Listener.HandleID), Cache)
            ELSE IF \/ TypeDiffers(f.StructType, Listener)
                    \/ WOutOfRange(f.WorldPosition, Listener)
                    \/ ~TagMatches(f.Channel, Listener)
                 THEN WLoop(g, Map, Spatial, Cache)
                 ELSE [frame |-> [g EXCEPT !.phase = "callback",
                                           !.delivery = "called",
                                           !.calls = 0,
                                           !.invoked = Append(@, Listener.ReceivedCallback)],
                       map |-> Map, spatial |-> Spatial]

\* BroadcastMessageInternal is called and runs to its first callback, or to
\* its return statement when it calls none
WBroadcastMessageInternal(Channel, StructType, WorldPosition) ==
    /\ CanCall
    /\ Depth < MaxDepth
    /\ WorldBroadcastResultCache' = Reset(WorldBroadcastResultCache)
    /\ LET BroadcastGridID == GetGridID(WorldPosition)
       IN IF BroadcastGridID \in DOMAIN GridListenerMap
          THEN LET r == WLoop(Frame("W", Channel, StructType, NoObject, WorldPosition,
                                    GridListenerMap[BroadcastGridID].Listeners),
                              GridListenerMap, HandleToSpatialMap,
                              Reset(WorldBroadcastResultCache))
               IN /\ stack' = Append(Called, r.frame)
                  /\ GridListenerMap' = r.map
                  /\ HandleToSpatialMap' = r.spatial
          ELSE /\ stack' = Append(Called,
                        [Frame("W", Channel, StructType, NoObject, WorldPosition, <<>>)
                            EXCEPT !.phase = "return",
                                   !.Result = Reset(WorldBroadcastResultCache)])
               /\ UNCHANGED <<GridListenerMap, HandleToSpatialMap>>
    /\ UNCHANGED <<gvars, GlobalHandleID, handles, nextCallback, destroyed, registeredInCallback, crashed>>
    /\ UNCHANGED ReceivedMessagePayloadPtr

\* the running callback returns; the loop tests bInterrupted and goes on to
\* the next callback or to the return statement
WCallbackReturn ==
    /\ ~crashed
    /\ Depth > 0
    /\ Top.router = "W"
    /\ Top.phase = "callback"
    /\ LET f == [Top EXCEPT !.leftInterrupted = WorldBroadcastResultCache.bInterrupted]
       IN IF WShouldBreak
          THEN /\ stack' = SetTop([f EXCEPT !.phase = "return",
                                            !.Result = WorldBroadcastResultCache])
               /\ UNCHANGED <<GridListenerMap, HandleToSpatialMap>>
          ELSE LET r == WLoop(f, GridListenerMap, HandleToSpatialMap,
                              WorldBroadcastResultCache)
               IN /\ stack' = SetTop(r.frame)
                  /\ GridListenerMap' = r.map
                  /\ HandleToSpatialMap' = r.spatial
    /\ UNCHANGED <<gvars, GlobalHandleID, WorldBroadcastResultCache,
                   handles, nextCallback, destroyed, registeredInCallback, crashed>>
    /\ UNCHANGED ReceivedMessagePayloadPtr

(***************************************************************************)
(* The engine destroys a UObject: every TWeakObjectPtr to it goes stale.   *)
(***************************************************************************)
DestroyObject(Object) ==
    /\ ~crashed
    /\ Depth = 0
    /\ Object /= NoObject
    /\ Object \notin destroyed
    /\ destroyed' = destroyed \cup {Object}
    /\ UNCHANGED <<gvars, wvars, stack, handles, nextCallback, registeredInCallback, crashed>>
    /\ UNCHANGED ReceivedMessagePayloadPtr

(***************************************************************************)
(* Another router instance registers a listener of its own and its caller  *)
(* keeps the handle.  A global router numbers the listeners of each type   *)
(* from 1; the spatial routers share the function-static GlobalHandleID.   *)
(***************************************************************************)
OtherGRegisterListener(StructType, ID) ==
    /\ ~crashed
    /\ Depth = 0
    /\ ForeignHandle("G", StructType, ID) \notin handles
    /\ \A k \in 1..(ID - 1) : ForeignHandle("G", StructType, k) \in handles
    /\ handles' = handles \cup {ForeignHandle("G", StructType, ID)}
    /\ UNCHANGED <<gvars, wvars, stack, nextCallback, destroyed, registeredInCallback,
                   crashed>>
    /\ UNCHANGED ReceivedMessagePayloadPtr

OtherWRegisterListener(StructType) ==
    /\ ~crashed
    /\ Depth = 0
    /\ GlobalHandleID' = GlobalHandleID + 1
    /\ handles' = handles \cup {ForeignHandle("W", StructType, GlobalHandleID + 1)}
    /\ UNCHANGED <<gvars, GridListenerMap, HandleToSpatialMap, WorldBroadcastResultCache,
                   stack, nextCallback, destroyed, registeredInCallback, crashed>>
    /\ UNCHANGED ReceivedMessagePayloadPtr

(***************************************************************************)
(* Specifications.                                                         *)
(***************************************************************************)
Priorities == {0, 10, 50}
TwoPriorities == {10, 50}

\* where spatial listeners stand and how far they hear
HomePosition == [X |-> 800, Y |-> 800, Z |-> 0]
HomeRadius == 1000
\* broadcast positions in range of HomePosition, in two different cells
NearPositions == {[X |-> 800, Y |-> 800, Z |-> 0], [X |-> 1700, Y |-> 800, Z |-> 0]}

Init ==
    /\ ListenerMap = <<>>
    /\ BroadcastResultCache = ResetResult
    /\ GridListenerMap = <<>>
    /\ HandleToSpatialMap = <<>>
    /\ GlobalHandleID = 0
    /\ WorldBroadcastResultCache = ResetResult
    /\ stack = <<>>
    /\ handles = {}
    /\ nextCallback = 1
    /\ destroyed = {}
    /\ registeredInCallback = {}
    /\ crashed = FALSE
    /\ ReceivedMessagePayloadPtr = <<>>

\* the steps of a broadcast in progress
Dispatching ==
    \/ GCallbackReturn
    \/ WCallbackReturn
    \/ BroadcastReturn

\* A behaviour of Spec and SpecCancel works with one router, the one its first
\* listener is registered with.
\* every listener registered so far is registered with the global router
OnlyGlobal == GlobalHandleID = 0
\* every listener registered so far is registered with the spatial router
OnlySpatial == nextCallback = GlobalHandleID + 1
\* the behaviour works with the global router
GlobalInUse == nextCallback > 1 /\ GlobalHandleID = 0
\* the behaviour works with the spatial router
SpatialInUse == GlobalHandleID > 0

\* One message type and channel, every listener in range.  The listeners of a
\* behaviour are all registered with the same router; they are registered
\* and unregistered from outside and from inside callbacks, callbacks cancel
\* and interrupt the message, and messages are broadcast from outside.
Next ==
    \/ \E p \in TwoPriorities :
            /\ OnlyGlobal
            /\ nextCallback <= MaxListeners
            /\ GRegisterListenerInternal(TagA, "T1", ExactMatch, p, NoObject)
    \/ \E p \in TwoPriorities :
            /\ OnlySpatial
            /\ nextCallback <= MaxListeners
            /\ WRegisterListenerInternal(TagA, "T1", ExactMatch, p, HomePosition, HomeRadius)
    \/ \E h \in handles : HandleIsValid(h) /\ GHandleUnregister(h)
    \/ \E h \in handles : HandleIsValid(h) /\ WHandleUnregister(h)
    \/ Depth > 0 /\ GlobalInUse /\ GCancelMessage(TRUE, TRUE)
    \/ Depth > 0 /\ SpatialInUse /\ WCancelMessage(TRUE, TRUE)
    \/ Depth = 0 /\ GlobalInUse /\ GBroadcastMessageInternal(TagA, "T1", NoObject)
    \/ \E q \in NearPositions :
            Depth = 0 /\ SpatialInUse /\ WBroadcastMessageInternal(TagA, "T1", q)
    \/ Dispatching

Spec == Init /\ [][Next]_vars

\* Both routers, registrations and broadcasts only, callbacks that call nothing.
NextRegister ==
    \/ \E p \in Priorities :
            /\ Depth = 0
            /\ nextCallback <= MaxOrdered
            /\ GRegisterListenerInternal(TagA, "T1", ExactMatch, p, NoObject)
    \/ \E p \in Priorities :
            /\ Depth = 0
            /\ nextCallback <= MaxOrdered
            /\ WRegisterListenerInternal(TagA, "T1", ExactMatch, p, HomePosition, HomeRadius)
    \/ Depth = 0 /\ GBroadcastMessageInternal(TagA, "T1", NoObject)
    \/ \E q \in NearPositions : Depth = 0 /\ WBroadcastMessageInternal(TagA, "T1", q)
    \/ Dispatching

SpecRegister == Init /\ [][NextRegister]_vars

\* Listeners of one priority, all registered with the same router from
\* outside; callbacks call CancelMessage and broadcast again.
NextCancel ==
    \/ \E p \in {50} :
            /\ Depth = 0
            /\ OnlyGlobal
            /\ nextCallback <= MaxListeners
            /\ GRegisterListenerInternal(TagA, "T1", ExactMatch, p, NoObject)
    \/ \E p \in {50} :
            /\ Depth = 0
            /\ OnlySpatial
            /\ nextCallback <= MaxListeners
            /\ WRegisterListenerInternal(TagA, "T1", ExactMatch, p, HomePosition, HomeRadius)
    \/ \E c, i \in BOOLEAN : Depth > 0 /\ GlobalInUse /\ GCancelMessage(c, i)
    \/ \E c, i \in BOOLEAN : Depth > 0 /\ SpatialInUse /\ WCancelMessage(c, i)
    \/ GlobalInUse /\ GBroadcastMessageInternal(TagA, "T1", NoObject)
    \/ SpatialInUse /\ WBroadcastMessageInternal(TagA, "T1", HomePosition)
    \/ Dispatching

SpecCancel == Init /\ [][NextCancel]_vars

\* the objects listeners and senders name as targets
TargetObjects == {"X", "Y"}
\* The global router with targets: listeners of one priority are registered
\* from outside for a target or for none, messages are broadcast to a target or
\* to none, and target objects are destroyed (weak pointers to them stay with
\* listeners and senders).
NextTarget ==
    \/ \E t \in {NoObject} \cup TargetObjects :
            /\ Depth = 0
            /\ nextCallback <= MaxListeners
            /\ GRegisterListenerInternal(TagA, "T1", ExactMatch, 50, t)
    \/ \E t \in {NoObject} \cup TargetObjects :
            /\ Depth = 0
            /\ GBroadcastMessageInternal(TagA, "T1", t)
    \/ \E o \in TargetObjects : DestroyObject(o)
    \/ GCallbackReturn
    \/ BroadcastReturn

SpecTarget == Init /\ [][NextTarget]_vars

\* the channels messages are broadcast on
Channels == {TagA, TagAB, TagABC, TagX}

\* Both routers with channels: listeners on channel A.B are registered from
\* outside with either match rule, and messages are broadcast on A, A.B,
\* A.B.C and X.
NextMatch ==
    \/ \E mt \in {ExactMatch, PartialMatch} :
            /\ Depth = 0
            /\ nextCallback <= MaxListeners
            /\ GRegisterListenerInternal(TagAB, "T1", mt, 50, NoObject)
    \/ \E mt \in {ExactMatch, PartialMatch} :
            /\ Depth = 0
            /\ nextCallback <= MaxListeners
            /\ WRegisterListenerInternal(TagAB, "T1", mt, 50, HomePosition, HomeRadius)
    \/ \E ch \in Channels : Depth = 0 /\ GBroadcastMessageInternal(ch, "T1", NoObject)
    \/ \E ch \in Channels : Depth = 0 /\ WBroadcastMessageInternal(ch, "T1", HomePosition)
    \/ Dispatching

SpecMatch == Init /\ [][NextMatch]_vars

\* a position whose circle of HomeRadius shares cells with HomePosition's
\* but holds no position of NearPositions
FarPosition == [X |-> 4000, Y |-> 800, Z |-> 0]

\* Listeners of one priority are registered from outside with one router;
\* their handles are unregistered again and again, by Unregister() from
\* outside and from inside callbacks and by value through UnregisterListener
\* from outside; spatial listeners are relocated from outside; messages are
\* broadcast from outside.
NextHandle ==
    \/ /\ Depth = 0
       /\ OnlyGlobal
       /\ nextCallback <= MaxHandles
       /\ GRegisterListenerInternal(TagA, "T1", ExactMatch, 50, NoObject)
    \/ /\ Depth = 0
       /\ OnlySpatial
       /\ nextCallback <= MaxHandles
       /\ WRegisterListenerInternal(TagA, "T1", ExactMatch, 50, HomePosition, HomeRadius)
    \/ \E h \in handles :
            h.Calls + h.Passed < MaxUnregisterCalls /\ GHandleUnregister(h)
    \/ \E h \in handles :
            h.Calls + h.Passed < MaxUnregisterCalls /\ WHandleUnregister(h)
    \/ \E h \in handles :
            Depth = 0 /\ h.Calls + h.Passed < MaxUnregisterCalls /\ GUnregisterListener(h)
    \/ \E h \in handles :
            Depth = 0 /\ h.Calls + h.Passed < MaxUnregisterCalls /\ WUnregisterListener(h)
    \/ \E h \in handles, q \in {HomePosition, FarPosition} :
            /\ Depth = 0
            /\ HandleIsValid(h)
            /\ h.ID \in DOMAIN HandleToSpatialMap
            /\ HandleToSpatialMap[h.ID].ListenPosition /= q
            /\ UpdateRegisterListenerLocation(h, q, HomeRadius)
    \/ Depth = 0 /\ GlobalInUse /\ GBroadcastMessageInternal(TagA, "T1", NoObject)
    \/ \E q \in NearPositions \cup {FarPosition} :
            Depth = 0 /\ SpatialInUse /\ WBroadcastMessageInternal(TagA, "T1", q)
    \/ Dispatching

SpecHandle == Init /\ [][NextHandle]_vars

\* Two routers of each class: listeners are registered with the modelled
\* routers and with the other instances, own handles are unregistered by
\* Unregister(), and any handle is passed to UnregisterListener of the
\* modelled router of its class; messages are broadcast.
NextForeign ==
    \/ /\ Depth = 0
       /\ nextCallback <= MaxHandles
       /\ GRegisterListenerInternal(TagA, "T1", ExactMatch, 50, NoObject)
    \/ /\ Depth = 0
       /\ nextCallback <= MaxHandles
       /\ WRegisterListenerInternal(TagA, "T1", ExactMatch, 50, HomePosition, HomeRadius)
    \/ \E id \in 1..MaxHandles : OtherGRegisterListener("T1", id)
    \/ GlobalHandleID < MaxHandles /\ OtherWRegisterListener("T1")
    \/ \E h \in handles : Depth = 0 /\ HandleIsValid(h) /\ GHandleUnregister(h)
    \/ \E h \in handles : Depth = 0 /\ HandleIsValid(h) /\ WHandleUnregister(h)
    \/ \E h \in handles :
            Depth = 0 /\ h.Passed < MaxUnregisterCalls /\ GUnregisterListener(h)
    \/ \E h \in handles :
            Depth = 0 /\ h.Passed < MaxUnregisterCalls /\ WUnregisterListener(h)
    \/ Depth = 0 /\ GBroadcastMessageInternal(TagA, "T1", NoObject)
    \/ Depth = 0 /\ WBroadcastMessageInternal(TagA, "T1", HomePosition)
    \/ Dispatching

SpecForeign == Init /\ [][NextForeign]_vars

\* positions in three cells of one row, and above one of them
AbovePosition == [X |-> 800, Y |-> 800, Z |-> 1100]
NearPosition == [X |-> 1700, Y |-> 800, Z |-> 0]
EdgePosition == [X |-> 2000, Y |-> 800, Z |-> 0]
SpatialPositions == {HomePosition, AbovePosition, NearPosition, EdgePosition, FarPosition}

\* radii a caller registers with: the home radius and a negative one
ListenRadii == {HomeRadius, 0 - HomeRadius}

\* the moves a caller asks for: to an overlapping set of cells with twice the
\* home radius, and to a disjoint one with a negative radius, which keeps
\* the radius the listener has
Relocations == {<<NearPosition, 2 * HomeRadius>>, <<FarPosition, 0 - HomeRadius>>}

\* The spatial router alone, every call made between broadcasts: listeners
\* are registered, moved and unregistered, and messages are broadcast at
\* positions in several cells.
NextSpatial ==
    \/ \E r \in ListenRadii :
            /\ Depth = 0
            /\ nextCallback <= MaxHandles
            /\ WRegisterListenerInternal(TagA, "T1", ExactMatch, 50, HomePosition, r)
    \/ \E h \in handles, m \in Relocations :
            /\ Depth = 0
            /\ HandleIsValid(h)
            /\ UpdateRegisterListenerLocation(h, m[1], m[2])
    \/ \E h \in handles : Depth = 0 /\ HandleIsValid(h) /\ WHandleUnregister(h)
    \/ \E q \in SpatialPositions : Depth = 0 /\ WBroadcastMessageInternal(TagA, "T1", q)
    \/ WCallbackReturn
    \/ BroadcastReturn

SpecSpatial == Init /\ [][NextSpatial]_vars

\* message types: listeners are registered for "T1" only
StructTypes == {"T1", "T2"}

\* One router at a time: listeners are registered from outside, CancelMessage
\* is called from outside and from callbacks with any flags, and messages of
\* types and at positions with and without listeners are broadcast from
\* outside and from callbacks.
NextReset ==
    \/ /\ Depth = 0
       /\ OnlyGlobal
       /\ nextCallback <= MaxHandles
       /\ GRegisterListenerInternal(TagA, "T1", ExactMatch, 50, NoObject)
    \/ /\ Depth = 0
       /\ OnlySpatial
       /\ nextCallback <= MaxHandles
       /\ WRegisterListenerInternal(TagA, "T1", ExactMatch, 50, HomePosition, HomeRadius)
    \/ \E c, i \in BOOLEAN : OnlyGlobal /\ GCancelMessage(c, i)
    \/ \E c, i \in BOOLEAN : OnlySpatial /\ WCancelMessage(c, i)
    \/ \E t \in StructTypes : OnlyGlobal /\ GBroadcastMessageInternal(TagA, t, NoObject)
    \/ \E q \in {HomePosition, FarPosition} :
            OnlySpatial /\ WBroadcastMessageInternal(TagA, "T1", q)
    \/ Dispatching

SpecReset == Init /\ [][NextReset]_vars

\* The spatial router and another instance of it, between broadcasts:
\* listeners are registered with the modelled router and one with the other
\* instance, own handles are unregistered by Unregister() and by value
\* through UnregisterListener, and UpdateRegisterListenerLocation is called
\* with every handle a caller holds, whatever became of its listener.
NextUpdate ==
    \/ /\ nextCallback <= MaxHandles
       /\ WRegisterListenerInternal(TagA, "T1", ExactMatch, 50, HomePosition, HomeRadius)
    \/ (\A h \in handles : h.Subsystem /= "Other") /\ OtherWRegisterListener("T1")
    \/ \E h \in handles : HandleIsValid(h) /\ WHandleUnregister(h)
    \/ \E h \in handles : h.Subsystem = "W" /\ h.Passed = 0 /\ WUnregisterListener(h)
    \/ \E h \in handles : UpdateRegisterListenerLocation(h, FarPosition, HomeRadius)

SpecUpdate == Init /\ [][NextUpdate]_vars

\* One router at a time, every call made between broadcasts: listeners are
\* registered for message types that exist, message types are destroyed
\* (their address may be handed to a later broadcast), and messages of both
\* types are broadcast in the listeners' cell and in a neighbouring one.
NextStale ==
    \/ \E t \in StructTypes :
            /\ Depth = 0
            /\ OnlyGlobal
            /\ nextCallback <= MaxListeners
            /\ t \notin destroyed
            /\ GRegisterListenerInternal(TagA, t, ExactMatch, 50, NoObject)
    \/ \E t \in StructTypes :
            /\ Depth = 0
            /\ OnlySpatial
            /\ nextCallback <= MaxListeners
            /\ t \notin destroyed
            /\ WRegisterListenerInternal(TagA, t, ExactMatch, 50, HomePosition, HomeRadius)
    \/ \E t \in StructTypes : DestroyObject(t)
    \/ \E t \in StructTypes :
            Depth = 0 /\ GlobalInUse /\ GBroadcastMessageInternal(TagA, t, NoObject)
    \/ \E t \in StructTypes, q \in {HomePosition, NearPosition} :
            Depth = 0 /\ SpatialInUse /\ WBroadcastMessageInternal(TagA, t, q)
    \/ Dispatching

SpecStale == Init /\ [][NextStale]_vars

\* The spatial router between broadcasts: listeners that differ in priority
\* and match rule are registered at the home position, moved and unregistered.
NextMove ==
    \/ \E p \in TwoPriorities :
            /\ nextCallback <= MaxHandles
            /\ WRegisterListenerInternal(TagA, "T1",
                    IF p = 10 THEN ExactMatch ELSE PartialMatch, p, HomePosition, HomeRadius)
    \/ \E h \in handles, m \in Relocations :
            HandleIsValid(h) /\ UpdateRegisterListenerLocation(h, m[1], m[2])
    \/ \E h \in handles : HandleIsValid(h) /\ WHandleUnregister(h)

SpecMove == Init /\ [][NextMove]_vars

\* FGameplayMessageListenerParams as callers fill it, with or without a callback
ListenerParams ==
    [OnMessageReceivedCallback : BOOLEAN, MatchType : {ExactMatch},
     Priority : TwoPriorities, TargetObject : {NoObject}]

\* FGameplayWorldMessageListenerParams as callers fill it
WorldListenerParams ==
    [OnMessageReceivedCallback : BOOLEAN, MatchType : {ExactMatch},
     Priority : TwoPriorities, ListenPosition : {HomePosition},
     ListenRadius : ListenRadii]

\* Both routers through the registration calls of their public interface,
\* from outside and from inside callbacks: the overloads that take a callback
\* and the overload that takes a Params structure.  Handles are unregistered
\* and messages broadcast from outside.
NextParams ==
    \/ \E t \in StructTypes :
            /\ OnlyGlobal
            /\ nextCallback <= MaxHandles
            /\ GRegisterListenerInternal(TagA, t, ExactMatch, 10, NoObject)
    \/ \E t \in StructTypes, Params \in ListenerParams :
            /\ OnlyGlobal
            /\ nextCallback <= MaxHandles
            /\ GRegisterListener(TagA, t, Params)
    \/ /\ OnlySpatial
       /\ nextCallback <= MaxHandles
       /\ WRegisterListenerInternal(TagA, "T1", ExactMatch, 10, HomePosition, HomeRadius)
    \/ \E Params \in WorldListenerParams :
            /\ OnlySpatial
            /\ nextCallback <= MaxHandles
            /\ WRegisterListener(TagA, "T1", Params)
    \/ \E h \in handles : Depth = 0 /\ HandleIsValid(h) /\ GHandleUnregister(h)
    \/ \E h \in handles : Depth = 0 /\ HandleIsValid(h) /\ WHandleUnregister(h)
    \/ Depth = 0 /\ GlobalInUse /\ GBroadcastMessageInternal(TagA, "T1", NoObject)
    \/ Depth = 0 /\ SpatialInUse /\ WBroadcastMessageInternal(TagA, "T1", HomePosition)
    \/ Dispatching

SpecParams == Init /\ [][NextParams]_vars

\* where and how far the listeners of SpecGrid listen: in cells of negative
\* and positive coordinates; with a circle that ends on the line between two
\* cells, one that passes through the corner of a cell, one that is a point,
\* a negative radius, and the cell of the least X and greatest Y a grid id holds
GridPlaces ==
    {<<HomePosition, HomeRadius>>,
     <<HomePosition, 0>>,
     <<HomePosition, 0 - HomeRadius>>,
     <<[X |-> GRID_SIZE + HomeRadius, Y |-> 800, Z |-> 0], HomeRadius>>,
     <<[X |-> GRID_SIZE + 600, Y |-> GRID_SIZE + 800, Z |-> 0], 1000>>,
     <<[X |-> 0 - 800, Y |-> 0 - 2400, Z |-> 0], HomeRadius>>,
     <<[X |-> 0 - 1, Y |-> GRID_SIZE, Z |-> 0], 2 * HomeRadius>>,
     <<[X |-> 0 - GRID_SIZE, Y |-> 0 - 1, Z |-> 1100], 0>>,
     <<[X |-> (0 - 2 ^ (WordBits - 1)) * GRID_SIZE,
        Y |-> (2 ^ (WordBits - 1) - 1) * GRID_SIZE, Z |-> 0], 0>>}

\* The spatial router between broadcasts, with listeners in cells all around
\* the origin: they are registered, moved once and unregistered.
NextGrid ==
    \/ \E pl \in GridPlaces :
            /\ nextCallback <= MaxHandles
            /\ WRegisterListenerInternal(TagA, "T1", ExactMatch, 50, pl[1], pl[2])
    \/ \E h \in handles, m \in Relocations :
            /\ HandleIsValid(h)
            /\ ~h.Moved
            /\ UpdateRegisterListenerLocation(h, m[1], m[2])
    \/ \E h \in handles : HandleIsValid(h) /\ WHandleUnregister(h)

SpecGrid == Init /\ [][NextGrid]_vars

(***************************************************************************)
(* Properties.  They are stated on the activations of the call stack; an   *)
(* activation at phase "return" is a broadcast that has just computed the  *)
(* result it hands to its sender.                                          *)
(***************************************************************************)
\* the priority the listener of callback c was registered with, as the
\* activation's copy of the list records it
PriorityIn(f, c) ==
    (CHOOSE e \in Range(f.ListenerArray) : e.ReceivedCallback = c).Priority

\* the callbacks registered in the router of activation f
Registered(f) == IF f.router = "G" THEN GRegistered(f.StructType) ELSE WRegistered

\* the callbacks of the entries the loop of f has visited, in list order
Visited(f) == Callbacks(SubSeq(f.ListenerArray, 1, f.Index))

\* C1: after registrations only, a broadcast of either router invokes the
\* listeners in ascending priority value, listeners of the same priority in
\* the order they were registered, and it invokes every one of them.
C1_PriorityOrder ==
    \A i \in 1..Depth :
        LET f == stack[i] IN
        /\ \A j, k \in 1..Len(f.invoked) :
                j < k =>
                    \/ PriorityIn(f, f.invoked[j]) < PriorityIn(f, f.invoked[k])
                    \/ /\ PriorityIn(f, f.invoked[j]) = PriorityIn(f, f.invoked[k])
                       /\ f.invoked[j] < f.invoked[k]
        /\ f.phase = "return" => Range(f.invoked) = Registered(f)

\* registered with priorities 50, 10, 50, 0: invoked 0, 10, the first 50, the second 50
C1_Witness ==
    \E i \in 1..Depth :
        /\ stack[i].router = "G"
        /\ stack[i].phase = "return"
        /\ stack[i].invoked = <<4, 2, 1, 3>>
        /\ [k \in 1..4 |-> PriorityIn(stack[i], stack[i].invoked[k])] = <<0, 10, 50, 50>>

\* C2: after any sequence of Register and Unregister calls, a broadcast of the
\* global router invokes the remaining listeners in ascending priority value.
C2_RemainingPriorityOrder ==
    \A i \in 1..Depth :
        LET f == stack[i] IN
        f.router = "G" =>
            \A j, k \in 1..Len(f.invoked) :
                j < k => PriorityIn(f, f.invoked[j]) <= PriorityIn(f, f.invoked[k])

\* C3: when a callback returns with the interrupted flag set, the broadcast
\* is at its return statement, no listener after that one was invoked, and
\* the result it returns has interrupted = true.
C3_InterruptionHalts ==
    \A i \in 1..Depth :
        LET f == stack[i] IN
        f.leftInterrupted =>
            /\ f.phase = "return"
            /\ f.Result.bInterrupted
            /\ f.invoked = Visited(f)

\* the second of three listeners interrupted: the third was not invoked
C3_Witness ==
    \E i \in 1..Depth :
        /\ stack[i].leftInterrupted
        /\ stack[i].phase = "return"
        /\ Len(stack[i].invoked) = 2
        /\ Len(stack[i].ListenerArray) = 3

\* C4: when the last CancelMessage call of a broadcast's own listeners was
\* CancelMessage(true, false) and no CancelMessage call set interrupted while
\* it ran, every listener is invoked and the sender receives cancelled = true
\* and interrupted = false.
C4_CancelKeepsDispatch ==
    \A i \in 1..Depth :
        LET f == stack[i] IN
        (/\ f.phase = "return"
         /\ f.own = [bCancelled |-> TRUE, bInterrupted |-> FALSE]
         /\ ~f.sawInterrupt) =>
            /\ Range(f.invoked) = f.liveAtStart
            /\ f.Result = [bCancelled |-> TRUE, bInterrupted |-> FALSE]

\* C5: the result a broadcast returns holds exactly the flags its own
\* listeners set, whatever broadcasts its callbacks started.
C5_OwnResultContext ==
    \A i \in 1..Depth :
        stack[i].phase = "return" => stack[i].Result = stack[i].own

\* C6: when none of a broadcast's own listeners set interrupted, whatever a
\* nested broadcast's listeners did, the broadcast invokes all its listeners
\* and its result has interrupted = false.
C6_NestedInterruptionContained ==
    \A i \in 1..Depth :
        LET f == stack[i] IN
        (f.phase = "return" /\ ~f.own.bInterrupted) =>
            /\ Range(f.invoked) = f.liveAtStart
            /\ ~f.Result.bInterrupted

\* C7: when a callback unregistered listeners the broadcast had not reached
\* yet, the broadcast still invokes the listeners of its list in list order,
\* each exactly once and none skipped, and reaches the end of the list unless
\* a callback interrupts it.
C7_ReentrantUnregisterSafe ==
    \A i \in 1..Depth :
        LET f == stack[i] IN
        f.removedPending /= {} =>
            /\ f.invoked = Visited(f)
            /\ (f.phase = "return" /\ ~f.leftInterrupted) =>
                    f.Index = Len(f.ListenerArray)

\* a broadcast over three listeners, one of them unregistered by an earlier
\* listener's callback, ran to its end
C7_Witness ==
    \E i \in 1..Depth :
        /\ stack[i].removedPending /= {}
        /\ stack[i].phase = "return"
        /\ ~stack[i].leftInterrupted
        /\ Len(stack[i].invoked) = 3

C9_TargetAffinity ==
    \A i \in 1..Depth :
        LET f == stack[i] IN
        f.phase = "return" =>
            \A k \in 1..Len(f.ListenerArray) :
                LET e == f.ListenerArray[k] IN
                IF e.TargetObject = NoObject
                THEN e.ReceivedCallback \in Range(f.invoked)
                ELSE e.ReceivedCallback \in Range(f.invoked)
                        <=> f.TargetObject = e.TargetObject

\* C10: a broadcast of the global router sent without a target invokes every
\* registered listener of the type and channel, those registered with a
\* target included.
C10_NoTargetIsGlobal ==
    \A i \in 1..Depth :
        LET f == stack[i] IN
        (f.phase = "return" /\ f.TargetObject = NoObject) =>
            \A k \in 1..Len(f.ListenerArray) :
                f.ListenerArray[k].ReceivedCallback \in Range(f.invoked)

\* C11: a broadcast of the global router addressed to a target invokes only
\* listeners registered for that target: none registered without a target and
\* none registered for another object.
C11_TargetedOnlyToRelated ==
    \A i \in 1..Depth :
        LET f == stack[i] IN
        f.TargetObject /= NoObject =>
            \A k \in 1..Len(f.ListenerArray) :
                f.ListenerArray[k].ReceivedCallback \in Range(f.invoked)
                    => f.ListenerArray[k].TargetObject = f.TargetObject

\* C12: a listener on channel A.B registered with ExactMatch is invoked by a
\* broadcast on A.B only; registered with PartialMatch it is invoked by
\* broadcasts on A.B and on its descendant A.B.C, and not by broadcasts on
\* the ancestor A or on the unrelated channel X.
C12_ExactAndPartialMatch ==
    \A i \in 1..Depth :
        LET f == stack[i] IN
        f.phase = "return" =>
            \A k \in 1..Len(f.ListenerArray) :
                LET e == f.ListenerArray[k] IN
                e.Channel = TagAB =>
                    (e.ReceivedCallback \in Range(f.invoked)
                        <=> \/ e.MatchType = ExactMatch /\ f.Channel = TagAB
                            \/ e.MatchType = PartialMatch /\ f.Channel \in {TagAB, TagABC})

\* a broadcast on A.B.C invoked a PartialMatch listener of A.B and passed
\* over an ExactMatch listener of A.B
C12_Witness ==
    \E i \in 1..Depth :
        /\ stack[i].phase = "return"
        /\ stack[i].Channel = TagABC
        /\ \E k, l \in 1..Len(stack[i].ListenerArray) :
              /\ stack[i].ListenerArray[k].MatchType = PartialMatch
              /\ stack[i].ListenerArray[k].ReceivedCallback \in Range(stack[i].invoked)
              /\ stack[i].ListenerArray[l].MatchType = ExactMatch
              /\ stack[i].ListenerArray[l].ReceivedCallback \notin Range(stack[i].invoked)

\* C13: a broadcast of either router invokes no listener for which an
\* unregister call had returned before the broadcast started, whatever was
\* registered, relocated and broadcast in between.
C13_UnregisteredNeverInvoked ==
    \A i \in 1..Depth :
        Range(stack[i].invoked) \cap stack[i].unregisteredAtStart = {}

\* a broadcast that started after a listener was unregistered and another
\* one registered has invoked a listener
C13_Witness ==
    \E i \in 1..Depth :
        /\ stack[i].unregisteredAtStart /= {}
        /\ \E c \in Range(stack[i].invoked) :
                \E d \in stack[i].unregisteredAtStart : d < c

\* C14: while the routers exist, every Unregister() call on a handle, of
\* either router, leaves the handle invalid and its listener out of the registry, and a call on a handle
\* that is already invalid changes no registry.
C14_UnregisterIdempotent ==
    [][\A h \in handles :
          (GHandleUnregister(h) \/ WHandleUnregister(h)) =>
              /\ \A g \in handles' : g.Callback = h.Callback => ~HandleIsValid(g)
              /\ h.Callback \notin (GRegistered("T1") \cup WRegistered)'
              /\ ~HandleIsValid(h) =>
                    UNCHANGED <<ListenerMap, GridListenerMap, HandleToSpatialMap>>]_vars

\* Unregister() was called on a handle that an earlier Unregister() had
\* already cleared, while another listener is registered
C14_Witness ==
    \E h \in handles :
        /\ h.Calls >= 2
        /\ ~HandleIsValid(h)
        /\ GRegistered("T1") \cup WRegistered /= {}

\* C15: in the global router an unregister call with a handle whose listener
\* is already gone removes no registered listener: every listener that left
\* the registry was unregistered through the handle issued for it.
C15_StaleHandleRemovesNothing ==
    \A h \in handles :
        (h.Class = "G" /\ h.Subsystem /= "Other" /\ h.Callback \notin GRegistered("T1"))
            => h.Calls + h.Passed > 0

\* C16: within one router every registration is issued a handle id greater
\* than every id issued before it, so no two registrations share an id.
C16_HandleIDsIncrease ==
    \A g, h \in handles :
        (g.Class = h.Class /\ g.Subsystem /= "Other" /\ h.Subsystem /= "Other"
            /\ g.Callback < h.Callback)
            => g.IssuedID < h.IssuedID

\* C17: UnregisterListener with a handle issued by another router instance
\* never aborts the process and removes no listener of the router it is
\* called on: a listener leaves a registry only through its own handle.
C17_ForeignHandleIsNoOp ==
    /\ ~crashed
    /\ \A h \in handles :
          (h.Subsystem /= "Other"
              /\ h.Callback \notin GRegistered("T1") \cup WRegistered)
              => h.Calls + h.Passed > 0


\* |P - Q| <= R, on squares: no point is within a negative radius
WithinRadius(P, Q, R) == R >= 0 /\ DistSquared(P, Q) <= R * R

\* the broadcasts of the spatial router that have reached their return statement
FinishedSpatial == {i \in 1..Depth : stack[i].router = "W" /\ stack[i].phase = "return"}

\* C18: a finished broadcast at Q has invoked a listener registered at P
\* with radius R, and not moved since, if and only if |P - Q| <= R
C18_SpatialCoverage ==
    \A i \in FinishedSpatial : \A h \in handles :
        (h.Class = "W" /\ HandleIsValid(h) /\ ~h.Moved /\ h.ID \in DOMAIN HandleToSpatialMap)
            => (h.Callback \in Range(stack[i].invoked)
                    <=> WithinRadius(HandleToSpatialMap[h.ID].ListenPosition,
                                     stack[i].WorldPosition,
                                     HandleToSpatialMap[h.ID].ListenRadius))


\* the cell's list holds an entry of the handle id
HasEntry(GridID, HandleID) ==
    /\ GridID \in DOMAIN GridListenerMap
    /\ IndexOfHandle(GridListenerMap[GridID].Listeners, HandleID) /= 0

\* the cells computed from the position and radius recorded for the handle id
RecordedGrids(HandleID) ==
    IF HandleID \in DOMAIN HandleToSpatialMap
    THEN Range(RelevantGrids(HandleToSpatialMap[HandleID].ListenPosition,
                             HandleToSpatialMap[HandleID].ListenRadius))
    ELSE {}

\* the cells whose list holds an entry of the handle id
GridsWithEntry(HandleID) == {g \in DOMAIN GridListenerMap : HasEntry(g, HandleID)}

\* no unregister call was made for the listener the handle id was issued to
IsRegistered(HandleID) ==
    \E h \in handles :
        /\ h.Class = "W" /\ h.Subsystem /= "Other"
        /\ h.IssuedID = HandleID
        /\ h.Calls + h.Passed = 0

\* C19: in the spatial router, after any sequence of Register, UpdateLocation
\* and Unregister calls, a cell's list holds an entry for a handle if and
\* only if no unregister call was made for the handle and the cell is one of
\* the cells computed from the position and radius recorded for it; a
\* listener a broadcast position is within the radius of therefore has an
\* entry in the cell of that position.
C19_CellsMatchRecordedCircle ==
    /\ \A id \in 1..GlobalHandleID :
          GridsWithEntry(id) = IF IsRegistered(id) THEN RecordedGrids(id) ELSE {}
    /\ \A id \in DOMAIN HandleToSpatialMap : \A q \in SpatialPositions :
          WithinRadius(HandleToSpatialMap[id].ListenPosition, q,
                       HandleToSpatialMap[id].ListenRadius)
              => HasEntry(GetGridID(q), id)

\* a listener was moved out of the home cell and has entries in several
\* cells, one of them shared with another listener
C19_Witness ==
    \E h \in handles :
        /\ h.Moved /\ HandleIsValid(h)
        /\ Cardinality(RecordedGrids(h.ID)) > 1
        /\ GetGridID(HomePosition) \notin RecordedGrids(h.ID)
        /\ \A g \in RecordedGrids(h.ID) : HasEntry(g, h.ID)
        /\ \E g \in RecordedGrids(h.ID) : Len(GridListenerMap[g].Listeners) > 1


\* the moved listeners that are still registered
MovedListeners ==
    {h \in handles : h.Class = "W" /\ h.Moved /\ HandleIsValid(h)
                        /\ h.ID \in DOMAIN HandleToSpatialMap}

\* C20 as stated: after UpdateLocation(h, P', R') returned true, a finished
\* broadcast at Q has invoked h if and only if |P' - Q| <= R'
C20_MovedMatchesNewCircle ==
    \A i \in FinishedSpatial : \A h \in MovedListeners :
        h.Callback \in Range(stack[i].invoked)
            <=> WithinRadius(HandleToSpatialMap[h.ID].ListenPosition,
                             stack[i].WorldPosition, h.NewRadius)

\* C20: after UpdateLocation(h, P', R') with R' >= 0 returned true, a
\* finished broadcast at Q has invoked h if and only if |P' - Q| <= R',
\* whichever cells P' and Q lie in; a negative R' is not a radius, it asks
\* to keep the radius h has.
C20_MovedMatchesNewRadius ==
    \A i \in FinishedSpatial : \A h \in MovedListeners :
        h.NewRadius >= 0
            => (h.Callback \in Range(stack[i].invoked)
                    <=> WithinRadius(HandleToSpatialMap[h.ID].ListenPosition,
                                     stack[i].WorldPosition, h.NewRadius))

\* a listener registered at the home position was moved with a radius, and a
\* broadcast in another cell than the new position's, out of the range the
\* listener had before, has invoked it
C20_Witness ==
    \E i \in FinishedSpatial : \E h \in MovedListeners :
        /\ h.NewRadius >= 0
        /\ stack[i].WorldPosition = EdgePosition
        /\ GetGridID(HandleToSpatialMap[h.ID].ListenPosition) = GetGridID(EdgePosition)
        /\ h.Callback \in Range(stack[i].invoked)


\* C21: in the spatial router, listeners of one priority that a broadcast
\* invokes are invoked in the order of their registration, after any
\* sequence of Register, UpdateLocation and Unregister calls and whichever
\* cell the broadcast falls in.
C21_EqualPriorityInRegistrationOrder ==
    \A i \in 1..Depth :
        stack[i].router = "W" =>
            \A a, b \in 1..Len(stack[i].invoked) :
                (a < b /\ PriorityIn(stack[i], stack[i].invoked[a])
                            = PriorityIn(stack[i], stack[i].invoked[b]))
                    => stack[i].invoked[a] < stack[i].invoked[b]


\* C22: a broadcast during which no CancelMessage call is made returns
\* cancelled = false and interrupted = false, whatever flags earlier
\* broadcasts or CancelMessage calls outside any broadcast left, also when
\* there is no list for its type or cell.
C22_StartsFromCleanResult ==
    \A i \in 1..Depth :
        (stack[i].phase = "return" /\ ~stack[i].sawCancel) => stack[i].Result = ResetResult

\* a broadcast that found no list, started from a callback after an earlier
\* callback of the outer broadcast had set cancelled, is at its return
C22_Witness ==
    /\ Depth = 2
    /\ stack[1].own.bCancelled
    /\ stack[2].phase = "return"
    /\ ~stack[2].sawCancel
    /\ Len(stack[2].ListenerArray) = 0


\* C23: when a listener a broadcast invoked called CancelMessage with
\* cancel = true (here: as the last such call of the broadcast's own
\* listeners), the result returned to the sender has cancelled = true.
C23_CancellationReachesSender ==
    \A i \in 1..Depth :
        (stack[i].phase = "return" /\ stack[i].own.bCancelled) => stack[i].Result.bCancelled


\* the handle is one of a listener registered in the modelled spatial router:
\* it was issued by it, was not cleared, and no unregister call was made
OfRegisteredListener(h) ==
    h.Class = "W" /\ h.Subsystem = "W" /\ HandleIsValid(h) /\ h.Calls + h.Passed = 0

\* C24: UpdateLocation returns true for every handle of a listener registered
\* in this router; for a handle that is invalid, was issued by another router
\* instance or whose listener was unregistered it returns false and leaves
\* the cell map and the handle index unchanged.
C24_UpdateRefusesUnknownHandles ==
    [][\A h \in handles :
          UpdateRegisterListenerLocation(h, FarPosition, HomeRadius) =>
              IF OfRegisteredListener(h)
              THEN \E g \in handles' :
                      /\ g.Callback = h.Callback /\ g.Moved /\ g.NewRadius = HomeRadius
                      /\ g.Refused = h.Refused
                      /\ HandleToSpatialMap'[g.ID].ListenPosition = FarPosition
              ELSE /\ UNCHANGED <<GridListenerMap, HandleToSpatialMap>>
                   /\ \E g \in handles' :
                         g.Refused /\ g.Moved = h.Moved /\ g.IssuedID = h.IssuedID]_vars

\* UpdateLocation returned true for a handle and, after the handle was
\* cleared, false; it returned false for a handle of another instance and
\* for a valid handle whose listener was unregistered by value
C24_Witness ==
    /\ \E h \in handles : h.Refused /\ h.Subsystem = NoObject /\ h.Moved
    /\ \E h \in handles : h.Refused /\ h.Subsystem = "Other"
    /\ \E h \in handles : h.Refused /\ h.Subsystem = "W" /\ h.Passed > 0 /\ HandleIsValid(h)


\* the entries of a broadcast's array that its loop has visited
VisitedEntries(f) == SubSeq(f.ListenerArray, 1, f.Index)

\* the entry passes the loop's tests of message type and, in the spatial
\* router, of distance (channels are equal under the specifications used)
EntryMatches(f, e) ==
    /\ e.ListenerStructType = f.StructType
    /\ f.router = "W" => ~WOutOfRange(f.WorldPosition, e)

\* C25: an entry whose message type was destroyed is not invoked by a
\* broadcast that visits it and is gone from the live registry afterwards
\* (in the spatial router from every cell and from the handle index), and
\* the broadcast invokes the visited entries of live, matching types in the
\* order of its list.
C25_StaleEntryPurged ==
    \A i \in 1..Depth :
        LET f == stack[i]
            Seen == VisitedEntries(f)
        IN /\ \A k \in 1..Len(Seen) :
                 Seen[k].ListenerStructType \in destroyed =>
                     /\ Seen[k].ReceivedCallback \notin Range(f.invoked)
                     /\ Seen[k].ReceivedCallback \notin Registered(f)
                     /\ f.router = "W" => Seen[k].HandleID \notin DOMAIN HandleToSpatialMap
           /\ f.invoked = Callbacks(SelectSeq(Seen, LAMBDA e :
                             e.ListenerStructType \notin destroyed /\ EntryMatches(f, e)))

\* a spatial broadcast passed an entry of a destroyed type and then invoked
\* a listener behind it
C25_Witness ==
    \E i \in 1..Depth :
        /\ stack[i].router = "W"
        /\ \E k \in 1..stack[i].Index :
              /\ stack[i].ListenerArray[k].ListenerStructType \in destroyed
              /\ \E j \in (k + 1)..stack[i].Index :
                    stack[i].ListenerArray[j].ReceivedCallback \in Range(stack[i].invoked)


\* C26: no key of a registry maps to an empty listener list: a grid cell is
\* in the cell map only while its list is non-empty, and a message type is a
\* key of the type map only while a listener is registered for it.
C26_NoEmptyLists ==
    /\ \A g \in DOMAIN GridListenerMap : Len(GridListenerMap[g].Listeners) > 0
    /\ \A t \in DOMAIN ListenerMap : Len(ListenerMap[t].Listeners) > 0


\* a listener was unregistered and another was moved away: the cell of the
\* home position, which both had entries in, is no key of the cell map,
\* while the cells of the moved listener are
C26_Witness ==
    /\ \E h \in handles : h.Class = "W" /\ h.Calls + h.Passed > 0
    /\ \E h \in handles : h.Class = "W" /\ h.Moved /\ HandleIsValid(h)
                             /\ h.ID \in DOMAIN HandleToSpatialMap
    /\ GetGridID(HomePosition) \notin DOMAIN GridListenerMap
    /\ GetGridID(FarPosition) \in DOMAIN GridListenerMap


\* C27: a listener is invoked only by broadcasts of the message type it was
\* registered for, also in the spatial router, where the list of one cell
\* holds listeners of different message types.
C27_OnlyOwnMessageType ==
    \A i \in 1..Depth : \A h \in handles :
        (h.Subsystem /= "Other" /\ h.Class = stack[i].router
            /\ h.Callback \in Range(stack[i].invoked))
            => h.StructType = stack[i].StructType

\* a spatial broadcast whose cell holds listeners of two existing message
\* types has visited both and invoked one
C27_Witness ==
    \E i \in 1..Depth :
        LET Seen == VisitedEntries(stack[i])
        IN /\ stack[i].router = "W"
           /\ Len(stack[i].invoked) > 0
           /\ \E k \in 1..Len(Seen) :
                 /\ Seen[k].ListenerStructType /= stack[i].StructType
                 /\ Seen[k].ListenerStructType \notin destroyed


\* the entries of a cell's list that belong to other handle ids, in order
OtherEntries(Map, GridID, HandleID) ==
    IF GridID \in DOMAIN Map
    THEN SelectSeq(Map[GridID].Listeners, LAMBDA e : e.HandleID /= HandleID)
    ELSE <<>>

\* the handle ids of a cell's list in dispatch order
DispatchOrder(Map, GridID) ==
    IF GridID \in DOMAIN Map
    THEN [i \in 1..Len(Map[GridID].Listeners) |-> Map[GridID].Listeners[i].HandleID]
    ELSE <<>>

\* what an update must leave alone in the copies of a listener's entry
Identity(e) ==
    [HandleID |-> e.HandleID, ReceivedCallback |-> e.ReceivedCallback,
     Channel |-> e.Channel, MatchType |-> e.MatchType,
     ListenerStructType |-> e.ListenerStructType, Priority |-> e.Priority]

\* the identities found in the copies of the handle id's entry
IdentitiesOf(Map, HandleID) ==
    UNION {{Identity(Map[g].Listeners[i]) :
                i \in {k \in 1..Len(Map[g].Listeners) : Map[g].Listeners[k].HandleID = HandleID}}
           : g \in DOMAIN Map}

\* the step is the call UpdateLocation(h, m) and returned true; the caller
\* holds the handle marked as moved afterwards
MovesListener(h, m) ==
    /\ [h EXCEPT !.Moved = TRUE, !.NewRadius = m[2]] \in handles'
    /\ CanUpdateLocation(h)
    /\ UpdateRegisterListenerLocation(h, m[1], m[2])

\* C28: UpdateLocation changes only the moved listener's position, radius
\* and cell membership: every copy of its entry keeps handle id, callback,
\* channel, match rule, message type and priority, and in every cell the
\* entries of the other listeners, with all their attributes and in their
\* order, are what they were, as are their records in the handle index; a
\* cell the moved listener stays in keeps its whole dispatch order.
C28_UpdateMovesOnlyItsListener ==
    [][\A h \in handles : \A m \in Relocations :
          MovesListener(h, m) =>
              /\ IdentitiesOf(GridListenerMap', h.ID) = IdentitiesOf(GridListenerMap, h.ID)
              /\ \A g \in DOMAIN GridListenerMap \cup DOMAIN GridListenerMap' :
                    /\ OtherEntries(GridListenerMap', g, h.ID)
                            = OtherEntries(GridListenerMap, g, h.ID)
                    /\ (h.ID \in Range(DispatchOrder(GridListenerMap, g))
                            /\ h.ID \in Range(DispatchOrder(GridListenerMap', g)))
                        => DispatchOrder(GridListenerMap', g) = DispatchOrder(GridListenerMap, g)
              /\ DOMAIN HandleToSpatialMap' = DOMAIN HandleToSpatialMap
              /\ \A id \in DOMAIN HandleToSpatialMap \ {h.ID} :
                    HandleToSpatialMap'[id] = HandleToSpatialMap[id]
              /\ \A g \in handles' : g.Callback = h.Callback => g.ID = h.ID]_vars

\* a moved listener has entries in several cells and shares one with a
\* listener of another priority and match rule that stands before it
C28_Witness ==
    \E h \in handles :
        /\ h.Moved /\ HandleIsValid(h)
        /\ Cardinality(GridsWithEntry(h.ID)) > 1
        /\ \E g \in GridsWithEntry(h.ID) :
              LET arr == GridListenerMap[g].Listeners
              IN /\ Len(arr) = 2
                 /\ arr[2].HandleID = h.ID
                 /\ arr[1].Priority /= arr[2].Priority
                 /\ arr[1].MatchType /= arr[2].MatchType


\* the positions and radii found in the copies of the handle id's entry
PlacesOf(Map, HandleID) ==
    UNION {{[ListenPosition |-> Map[g].Listeners[i].ListenPosition,
             ListenRadius   |-> Map[g].Listeners[i].ListenRadius] :
                i \in {k \in 1..Len(Map[g].Listeners) : Map[g].Listeners[k].HandleID = HandleID}}
           : g \in DOMAIN Map}

\* C29: an UpdateLocation call that succeeds with a negative new radius
\* keeps the listener's radius and changes only its position, one with a
\* radius >= 0 replaces the radius; after the call the listener's record and
\* every copy of its entry carry the new position and the resulting radius,
\* and the cells holding an entry are those computed from the two.
C29_NegativeRadiusKeepsRadius ==
    [][\A h \in handles : \A m \in Relocations :
          MovesListener(h, m) =>
              LET Resulting == IF m[2] < 0 THEN HandleToSpatialMap[h.ID].ListenRadius
                               ELSE m[2]
                  Place == [ListenPosition |-> m[1], ListenRadius |-> Resulting]
              IN /\ HandleToSpatialMap'[h.ID] = Place
                 /\ PlacesOf(GridListenerMap', h.ID) = {Place}
                 /\ {g \in DOMAIN GridListenerMap' :
                        h.ID \in Range(DispatchOrder(GridListenerMap', g))}
                      = Range(RelevantGrids(m[1], Resulting))]_vars

\* a listener was given a radius by one update and kept it through a later
\* update with a negative radius that moved it to other cells
C29_Witness ==
    \E h \in MovedListeners :
        /\ h.NewRadius < 0
        /\ HandleToSpatialMap[h.ID] =
                [ListenPosition |-> FarPosition, ListenRadius |-> 2 * HomeRadius]
        /\ GridsWithEntry(h.ID) = Range(RelevantGrids(FarPosition, 2 * HomeRadius))


\* the entries of a list that belong to other callbacks, in order
WithoutCallback(Listeners, Callback) ==
    SelectSeq(Listeners, LAMBDA e : e.ReceivedCallback /= Callback)

\* the listeners of a key of a registry, none when the key is absent
ListenersAt(Map, Key) == IF Key \in DOMAIN Map THEN Map[Key].Listeners ELSE <<>>

\* the keys of a registry whose list holds exactly one entry of the callback
KeysHoldingOnce(Map, Callback) ==
    {k \in DOMAIN Map :
        Cardinality({i \in 1..Len(Map[k].Listeners) :
                        Map[k].Listeners[i].ReceivedCallback = Callback}) = 1}

\* the step returned a valid handle of the class for a listener that is new
ReturnsValidHandle(Class) ==
    /\ nextCallback' = nextCallback + 1
    /\ \E h \in handles' \ handles :
          /\ handles' = handles \cup {h}
          /\ h.Class = Class /\ h.Callback = nextCallback
          /\ HandleIsValid(h)

\* the step added one listener to the global router, under the struct type,
\* and returned a valid handle
GRegistersOne(StructType) ==
    /\ ReturnsValidHandle("G")
    /\ KeysHoldingOnce(ListenerMap', nextCallback) = {StructType}
    /\ \A t \in DOMAIN ListenerMap' :
          WithoutCallback(ListenerMap'[t].Listeners, nextCallback)
              = ListenersAt(ListenerMap, t)

\* the step added one listener to the spatial router, one entry in every cell
\* computed from its position and radius, and returned a valid handle
WRegistersOne(ListenPosition, ListenRadius) ==
    /\ ReturnsValidHandle("W")
    /\ KeysHoldingOnce(GridListenerMap', nextCallback)
            = Range(RelevantGrids(ListenPosition, ListenRadius))
    /\ \A g \in DOMAIN GridListenerMap' :
          WithoutCallback(GridListenerMap'[g].Listeners, nextCallback)
              = ListenersAt(GridListenerMap, g)

\* the step added no listener and returned a default-constructed handle
RegistersNone(Class) ==
    /\ UNCHANGED <<ListenerMap, GridListenerMap, HandleToSpatialMap, nextCallback>>
    /\ handles' = handles \cup {DefaultHandle(Class)}

\* C30 as stated: every registration call of the public interface adds
\* exactly one new listener (one entry per cell of its circle in the spatial
\* router) and returns a handle for which IsValid() is true, and a
\* default-constructed handle is invalid.
C30_RegisterAlwaysSucceeds ==
    [][/\ ~HandleIsValid(DefaultHandle("G")) /\ ~HandleIsValid(DefaultHandle("W"))
       /\ \A t \in StructTypes :
             /\ GRegisterListenerInternal(TagA, t, ExactMatch, 10, NoObject)
                    => GRegistersOne(t)
             /\ \A Params \in ListenerParams :
                    GRegisterListener(TagA, t, Params) => GRegistersOne(t)
       /\ WRegisterListenerInternal(TagA, "T1", ExactMatch, 10, HomePosition, HomeRadius)
             => WRegistersOne(HomePosition, HomeRadius)
       /\ \A Params \in WorldListenerParams :
             WRegisterListener(TagA, "T1", Params)
                 => WRegistersOne(Params.ListenPosition, Params.ListenRadius)]_vars

\* C30: every registration call that hands over a callback adds exactly one
\* new listener (one entry per cell of its circle in the spatial router) and
\* returns a handle for which IsValid() is true; a call of the Params
\* overload whose Params carries no callback adds nothing and returns a
\* default-constructed handle; a default-constructed handle is invalid.
C30_RegisterWithCallbackSucceeds ==
    [][/\ ~HandleIsValid(DefaultHandle("G")) /\ ~HandleIsValid(DefaultHandle("W"))
       /\ \A t \in StructTypes :
             /\ GRegisterListenerInternal(TagA, t, ExactMatch, 10, NoObject)
                    => GRegistersOne(t)
             /\ \A Params \in ListenerParams :
                    GRegisterListener(TagA, t, Params)
                        => IF Params.OnMessageReceivedCallback
                           THEN GRegistersOne(t)
                           ELSE RegistersNone("G")
       /\ WRegisterListenerInternal(TagA, "T1", ExactMatch, 10, HomePosition, HomeRadius)
             => WRegistersOne(HomePosition, HomeRadius)
       /\ \A Params \in WorldListenerParams :
             WRegisterListener(TagA, "T1", Params)
                 => IF Params.OnMessageReceivedCallback
                    THEN WRegistersOne(Params.ListenPosition, Params.ListenRadius)
                    ELSE RegistersNone("W")]_vars

\* a callback registered a listener next to the one that was there, and a
\* call without a callback has returned a default-constructed handle
C30_Witness ==
    /\ registeredInCallback /= {}
    /\ \E h \in handles : h = DefaultHandle(h.Class)
    /\ \E h \in handles : HandleIsValid(h) /\ h.Callback \in registeredInCallback
    /\ \/ \E t \in DOMAIN ListenerMap : Len(ListenerMap[t].Listeners) > 1
       \/ \E g \in DOMAIN GridListenerMap : Len(GridListenerMap[g].Listeners) > 1


\* C33 as stated: a listener unregistered by the callback of an earlier
\* listener of the same broadcast is still invoked by that broadcast.
C33_UnregisteredPendingInvoked ==
    \A i \in 1..Depth :
        LET f == stack[i] IN
        f.phase = "return" => f.removedPending \subseteq Range(f.invoked)

\* C33: a listener unregistered by the callback of an earlier listener of
\* the same broadcast is still invoked by that broadcast when its loop
\* reaches the listener's entry in the by-value copy, and the loop reaches
\* it unless a callback before it returns with the interrupted flag set.
C33_UnregisteredPendingInvokedUnlessInterrupted ==
    \A i \in 1..Depth :
        LET f == stack[i] IN
        /\ \A k \in 1..Len(f.ListenerArray) :
                (k <= f.Index /\ f.ListenerArray[k].ReceivedCallback \in f.removedPending)
                    => f.ListenerArray[k].ReceivedCallback \in Range(f.invoked)
        /\ (f.phase = "return" /\ ~f.leftInterrupted) =>
                f.removedPending \subseteq Range(f.invoked)

\* a broadcast has invoked a listener that an earlier callback of the same
\* broadcast had removed from the live registry, and went on to return
C33_Witness ==
    \E i \in 1..Depth :
        /\ stack[i].phase = "return"
        /\ ~stack[i].leftInterrupted
        /\ \E c \in stack[i].removedPending :
              /\ c \in Range(stack[i].invoked)
              /\ c \notin Registered(stack[i])
              /\ c \in UnregisteredCallbacks


\* every entry of the live spatial registry, whichever cell holds it
AllGridEntries ==
    UNION {Range(GridListenerMap[g].Listeners) : g \in DOMAIN GridListenerMap}

\* the listener passes the type, target, channel and distance filters of the
\* broadcast as the routers promise them: its message type is the
\* broadcast's, it has no target or the broadcast's target, its channel rule
\* matches, and in the spatial router the broadcast is within its radius
PassesFilters(f, e) ==
    /\ e.ListenerStructType = f.StructType
    /\ TagMatches(f.Channel, e)
    /\ IF f.router = "G"
       THEN e.TargetObject = NoObject \/ e.TargetObject = f.TargetObject
       ELSE WithinRadius(e.ListenPosition, f.WorldPosition, e.ListenRadius)

\* the listeners registered with the router of the broadcast (nothing was
\* registered or unregistered since it began)
RegisteredEntries(f) ==
    IF f.router = "G"
    THEN UNION {Range(ListenerMap[t].Listeners) : t \in DOMAIN ListenerMap}
    ELSE AllGridEntries

\* C34: a broadcast during which no callback set interrupted and none
\* started a nested broadcast has, when it returns, invoked every listener
\* that was registered when it began and passes the type, target, channel
\* and distance filters, each exactly once, and no other listener.
C34_EveryMatchingListenerOnce ==
    \A i \in 1..Depth :
        LET f == stack[i] IN
        (f.phase = "return" /\ ~f.sawInterrupt /\ i = Depth) =>
            /\ \A j, k \in 1..Len(f.invoked) : j /= k => f.invoked[j] /= f.invoked[k]
            /\ Range(f.invoked)
                  = {e.ReceivedCallback : e \in {d \in RegisteredEntries(f) : PassesFilters(f, d)}}


\* C38: a broadcast of the global router that has no target object invokes
\* no listener whose target object has been destroyed.
C38_DeadTargetIsNotNoTarget ==
    \A i \in 1..Depth :
        LET f == stack[i] IN
        (f.router = "G" /\ f.TargetObject = NoObject) =>
            \A k \in 1..Len(f.ListenerArray) :
                f.ListenerArray[k].TargetObject \in destroyed
                    => f.ListenerArray[k].ReceivedCallback \notin Range(f.invoked)


\* C36: in the spatial router every cell holds at most one entry per handle
\* id, the copies of a listener's entry in different cells are equal in
\* every attribute, and their position and radius are those of the handle's
\* record in the handle index.
C36_CopiesAgree ==
    /\ \A g \in DOMAIN GridListenerMap :
          LET arr == GridListenerMap[g].Listeners
          IN \A j, k \in 1..Len(arr) : j /= k => arr[j].HandleID /= arr[k].HandleID
    /\ \A d, e \in AllGridEntries : d.HandleID = e.HandleID => d = e
    /\ \A e \in AllGridEntries :
          /\ e.HandleID \in DOMAIN HandleToSpatialMap
          /\ HandleToSpatialMap[e.HandleID] =
                [ListenPosition |-> e.ListenPosition, ListenRadius |-> e.ListenRadius]

\* a listener moved with a wider radius stands in several cells, in some of
\* them since its registration, next to a listener that was never moved
C36_Witness ==
    \E h \in MovedListeners :
        /\ HandleToSpatialMap[h.ID].ListenPosition = NearPosition
        /\ HandleToSpatialMap[h.ID].ListenRadius = 2 * HomeRadius
        /\ Cardinality(GridsWithEntry(h.ID)) > 1
        /\ \E g \in handles :
              /\ ~g.Moved /\ HandleIsValid(g) /\ g.ID /= h.ID
              /\ GridsWithEntry(g.ID) \cap GridsWithEntry(h.ID) /= {}


\* the handle is the one issued for a listener that is registered now
HoldsRegistered(h) ==
    /\ HandleIsValid(h)
    /\ h.Subsystem = h.Class
    /\ IF h.Class = "G"
       THEN \E e \in Range(ListenersAt(ListenerMap, h.StructType)) :
                e.ReceivedCallback = h.Callback /\ e.HandleID = h.ID
       ELSE \E e \in AllGridEntries :
                e.ReceivedCallback = h.Callback /\ e.HandleID = h.ID

\* the step is an unregister call made with the handle
UnregistersWith(h) ==
    \/ GHandleUnregister(h)
    \/ WHandleUnregister(h)
    \/ GUnregisterListener(h)
    \/ WUnregisterListener(h)

\* C37: an unregister call made with the handle of a registered listener
\* removes that listener and nothing else: in the global router the entries
\* of every message type are those it had, less the listener's entry; in
\* the spatial router every cell keeps its other entries unchanged and in
\* their order, no cell keeps a copy of the listener's entry, and the handle
\* index loses the listener's record and no other.
C37_UnregisterRemovesOnlyItsListener ==
    [][\A h \in handles :
          (HoldsRegistered(h) /\ ~crashed' /\ UnregistersWith(h)) =>
              /\ \A t \in DOMAIN ListenerMap \cup DOMAIN ListenerMap' :
                    /\ Range(ListenersAt(ListenerMap', t))
                          = {e \in Range(ListenersAt(ListenerMap, t)) :
                                e.ReceivedCallback /= h.Callback}
                    /\ Len(ListenersAt(ListenerMap', t))
                          = Len(WithoutCallback(ListenersAt(ListenerMap, t), h.Callback))
              /\ \A g \in DOMAIN GridListenerMap \cup DOMAIN GridListenerMap' :
                    ListenersAt(GridListenerMap', g)
                        = WithoutCallback(ListenersAt(GridListenerMap, g), h.Callback)
              /\ h.Class = "W" =>
                    /\ h.ID \notin DOMAIN HandleToSpatialMap'
                    /\ DOMAIN HandleToSpatialMap' = DOMAIN HandleToSpatialMap \ {h.ID}
              /\ \A id \in DOMAIN HandleToSpatialMap' :
                    HandleToSpatialMap'[id] = HandleToSpatialMap[id]]_vars

\* the listener registered first was unregistered with its handle and the
\* one registered after it with the same router is still registered
C37_Witness ==
    \E h, g \in handles :
        /\ h.Calls = 1 /\ ~HandleIsValid(h) /\ h.IssuedID /= 0
        /\ g.Class = h.Class /\ HoldsRegistered(g)
        /\ h.Callback < g.Callback
        /\ h.Callback \notin WRegistered
        /\ \A t \in DOMAIN ListenerMap : h.Callback \notin GRegistered(t)


\* the cell coordinates of a position: floor(world coordinate / GRID_SIZE)
CellOf(P) == <<FloorToGrid(P.X), FloorToGrid(P.Y)>>

\* the two coordinates packed in a grid id
Unpacked(GridID) == <<UnpackGridX(GridID), UnpackGridY(GridID)>>

\* C32: the id of a cell packs its two signed coordinates injectively, X in
\* the high word and Y in the low word: unpacking the id of a listener's
\* position returns floor(X / GRID_SIZE) and floor(Y / GRID_SIZE), negative
\* for negative positions; positions in different cells have different ids;
\* and every id that is a key of the cell map is the packing of the
\* coordinates unpacked from it, with the centre of that cell in the cell.
C32_GridIDPacksInjectively ==
    /\ \A e \in AllGridEntries :
          LET P == e.ListenPosition
              Cell == CellOf(P)
          IN /\ Unpacked(GetGridID(P)) = Cell
             /\ Cell[1] * GRID_SIZE <= P.X /\ P.X < (Cell[1] + 1) * GRID_SIZE
             /\ Cell[2] * GRID_SIZE <= P.Y /\ P.Y < (Cell[2] + 1) * GRID_SIZE
             /\ P.X < 0 => Cell[1] < 0
             /\ P.Y < 0 => Cell[2] < 0
    /\ \A d, e \in AllGridEntries :
          GetGridID(d.ListenPosition) = GetGridID(e.ListenPosition)
              <=> CellOf(d.ListenPosition) = CellOf(e.ListenPosition)
    /\ \A k \in DOMAIN GridListenerMap :
          /\ PackGridID(UnpackGridX(k), UnpackGridY(k)) = k
          /\ GetGridID(GetGridCenter(k)) = k
    /\ \A j, k \in DOMAIN GridListenerMap : Unpacked(j) = Unpacked(k) => j = k

\* a listener stands at a negative X with a circle over several cells, and
\* the cell map has cells in all four quadrants around the origin and the
\* cell of the least X and greatest Y
C32_Witness ==
    /\ \E d \in AllGridEntries : d.ListenPosition.X < 0 /\ d.ListenRadius > 0
    /\ \A sx, sy \in BOOLEAN :
          \E k \in DOMAIN GridListenerMap :
              /\ (UnpackGridX(k) < 0) = sx
              /\ (UnpackGridY(k) < 0) = sy
    /\ \E k \in DOMAIN GridListenerMap :
          /\ UnpackGridX(k) = 0 - 2 ^ (WordBits - 1)
          /\ UnpackGridY(k) = 2 ^ (WordBits - 1) - 1


\* how far the position is from the closed interval [lo, hi] of one axis
AxisGap(v, lo, hi) == IF v < lo THEN lo - v ELSE IF v > hi THEN v - hi ELSE 0

\* the closed square of cell (GridX, GridY) lies within distance Radius of
\* the position: squared distance to its closest point <= Radius squared
SquareWithin(P, Radius, GridX, GridY) ==
    LET dx == AxisGap(P.X, GridX * GRID_SIZE, (GridX + 1) * GRID_SIZE)
        dy == AxisGap(P.Y, GridY * GRID_SIZE, (GridY + 1) * GRID_SIZE)
    IN dx * dx + dy * dy <= Radius * Radius

\* some point of cell (GridX, GridY) is within distance Radius of the
\* position; the cell holds its lower and left edges but not its upper and
\* right ones, so a distance measured to those is not reached inside it
CellHasPointWithin(P, Radius, GridX, GridY) ==
    LET dx == AxisGap(P.X, GridX * GRID_SIZE, (GridX + 1) * GRID_SIZE)
        dy == AxisGap(P.Y, GridY * GRID_SIZE, (GridY + 1) * GRID_SIZE)
        Reached == P.X < (GridX + 1) * GRID_SIZE /\ P.Y < (GridY + 1) * GRID_SIZE
    IN IF Reached THEN dx * dx + dy * dy <= Radius * Radius
       ELSE dx * dx + dy * dy < Radius * Radius

\* the cells around the circle, one ring wider than its bounding box
CellsAround(P, Radius) ==
    (FloorToGrid(P.X - Radius) - 1 .. FloorToGrid(P.X + Radius) + 1)
        \X (FloorToGrid(P.Y - Radius) - 1 .. FloorToGrid(P.Y + Radius) + 1)

\* the positions and radii >= 0 recorded for the registered listeners
RecordedCircles ==
    {HandleToSpatialMap[id] : id \in {i \in DOMAIN HandleToSpatialMap :
                                        HandleToSpatialMap[i].ListenRadius >= 0}}

\* the listeners are kept in the cells GetGridsInRadius computes from their
\* records, and in the single cell of their position only when it computes
\* none; no unregistered listener is left in a cell
KeptInComputedCells ==
    /\ \A id \in DOMAIN HandleToSpatialMap :
          LET Grids == GetGridsInRadius(HandleToSpatialMap[id].ListenPosition,
                                        HandleToSpatialMap[id].ListenRadius)
          IN GridsWithEntry(id) =
                IF Len(Grids) = 0
                THEN {GetGridID(HandleToSpatialMap[id].ListenPosition)}
                ELSE Range(Grids)
    /\ \A e \in AllGridEntries : e.HandleID \in DOMAIN HandleToSpatialMap

\* C35 as stated: for every position and radius >= 0, GetGridsInRadius
\* computes exactly the cells whose square lies within distance radius of
\* the position, none twice, the cell of the position among them; the
\* routers fall back to the cell of the position only when it computes none.
C35_CellsAreSquaresWithinRadius ==
    /\ \A c \in RecordedCircles :
          LET Grids == GetGridsInRadius(c.ListenPosition, c.ListenRadius)
          IN /\ Range(Grids) =
                    {PackGridID(g[1], g[2]) :
                        g \in {a \in CellsAround(c.ListenPosition, c.ListenRadius) :
                                 SquareWithin(c.ListenPosition, c.ListenRadius, a[1], a[2])}}
             /\ \A j, k \in 1..Len(Grids) : j /= k => Grids[j] /= Grids[k]
             /\ GetGridID(c.ListenPosition) \in Range(Grids)
    /\ KeptInComputedCells

\* C35: for every position and radius >= 0, GetGridsInRadius computes a set
\* of cells that holds every cell with a point within distance radius of the
\* position and only cells whose closed square lies within that distance,
\* none twice, the cell of the position among them; the routers fall back to
\* the cell of the position only when it computes none.
C35_CellsCoverCircle ==
    /\ \A c \in RecordedCircles :
          LET Grids == GetGridsInRadius(c.ListenPosition, c.ListenRadius)
          IN /\ \A a \in CellsAround(c.ListenPosition, c.ListenRadius) :
                   /\ CellHasPointWithin(c.ListenPosition, c.ListenRadius, a[1], a[2])
                        => PackGridID(a[1], a[2]) \in Range(Grids)
                   /\ PackGridID(a[1], a[2]) \in Range(Grids)
                        => SquareWithin(c.ListenPosition, c.ListenRadius, a[1], a[2])
             /\ Range(Grids) \subseteq
                    {PackGridID(a[1], a[2]) : a \in CellsAround(c.ListenPosition, c.ListenRadius)}
             /\ \A j, k \in 1..Len(Grids) : j /= k => Grids[j] /= Grids[k]
             /\ GetGridID(c.ListenPosition) \in Range(Grids)
    /\ KeptInComputedCells

\* a listener whose circle ends on the line between two cells and one whose
\* circle passes through the corner of a cell: the first is not kept in the
\* cell beyond the line, the second is kept in the cell behind the corner
C35_Witness ==
    \E c, d \in RecordedCircles :
        /\ c.ListenRadius > 0 /\ d.ListenRadius > 0
        /\ \E a \in CellsAround(c.ListenPosition, c.ListenRadius) :
              /\ SquareWithin(c.ListenPosition, c.ListenRadius, a[1], a[2])
              /\ PackGridID(a[1], a[2])
                    \notin Range(GetGridsInRadius(c.ListenPosition, c.ListenRadius))
        /\ \E a \in CellsAround(d.ListenPosition, d.ListenRadius) :
              /\ ~CellHasPointWithin(d.ListenPosition, d.ListenRadius, a[1], a[2])
              /\ PackGridID(a[1], a[2])
                    \in Range(GetGridsInRadius(d.ListenPosition, d.ListenRadius))


(***************************************************************************)
(* UAsyncAction_ListenForGameplayMessage, the blueprint listen action of   *)
(* the global router (the action of the spatial router has the same        *)
(* GetPayload, OverridePayload, HandleMessageReceived and                  *)
(* SetReadyToDestroy, line for line).  An action is named by the callback  *)
(* its Activate registers.  ReceivedMessagePayloadPtr maps an action to    *)
(* the nesting level of the broadcast whose message struct its pointer     *)
(* holds; an action that is not in its domain holds nullptr.  The fields   *)
(* got and overrode of an activation and the field Message of a GetPayload *)
(* result are history.                                                     *)
(***************************************************************************)
\* the PayloadType the actions are created with
AsyncPayloadType == "T1"

\* MessageStructType.Get()
MessageStructType(Action) ==
    IF WeakIsValid(AsyncPayloadType) THEN AsyncPayloadType ELSE NoObject

\* the blueprint object whose event is bound to OnMessageReceived
OwnerOf(Action) == <<"Owner1", "Owner2", "Owner3", "Owner4", "Owner5">>[Action]

\* a delegate that keeps the handlers of destroyed objects
IsBoundForEver(Action) == TRUE

\* OnMessageReceived.IsBound(): the handler goes with the object that owns it
IsBound(Action) == OwnerOf(Action) \notin destroyed

\* the ListenerHandle member
ListenerHandle(Action) == CHOOSE h \in handles : h.Class = "G" /\ h.Callback = Action

\* the action whose callback the innermost broadcast is running
Delivering == Top.invoked[Len(Top.invoked)]

\* the handlers bound to OnMessageReceived are running
Handling ==
    /\ ~crashed
    /\ Depth > 0
    /\ Top.phase = "callback"
    /\ Top.delivery = "handling"
    /\ IsBound(Delivering)

\* Activate: the action registers its callback with the router
Activate(Channel, MatchType, Priority, TargetObject) ==
    GRegisterListenerInternal(Channel, AsyncPayloadType, MatchType, Priority, TargetObject)

\* HandleMessageReceived up to OnMessageReceived.Broadcast: the type test and
\* "ReceivedMessagePayloadPtr = Payload"
HandleMessageReceivedBegin ==
    /\ ~crashed
    /\ Depth > 0
    /\ Top.phase = "callback"
    /\ Top.delivery = "called"
    /\ IF MessageStructType(Delivering) = NoObject
          \/ MessageStructType(Delivering) = Top.StructType
       THEN /\ ReceivedMessagePayloadPtr' = MapPut(ReceivedMessagePayloadPtr, Delivering, Depth)
            /\ stack' = SetTop([Top EXCEPT !.delivery = "handling", !.got = NoPayload])
       ELSE /\ stack' = SetTop([Top EXCEPT !.delivery = "skipped", !.got = NoPayload])
            /\ UNCHANGED ReceivedMessagePayloadPtr
    /\ UNCHANGED <<gvars, wvars, handles, nextCallback, destroyed, registeredInCallback,
                   crashed>>

\* execGetPayload: copies the struct behind ReceivedMessagePayloadPtr when the
\* wildcard's type is MessageStructType and the pointer is not null
execGetPayload(Action, StructProp) ==
    IF /\ StructProp /= NoObject
       /\ StructProp = MessageStructType(Action)
       /\ Action \in DOMAIN ReceivedMessagePayloadPtr
    THEN [StructProp |-> StructProp, bSuccess |-> TRUE,
          OutPayload |-> stack[ReceivedMessagePayloadPtr[Action]].Payload,
          Message |-> Top.Payload]
    ELSE [StructProp |-> StructProp, bSuccess |-> FALSE, OutPayload |-> NoObject,
          Message |-> Top.Payload]

\* a handler calls GetPayload on the action that delivers to it
GetPayload(StructProp) ==
    /\ Handling
    /\ stack' = SetTop([Top EXCEPT !.got = execGetPayload(Delivering, StructProp)])
    /\ UNCHANGED <<gvars, wvars, handles, nextCallback, destroyed, registeredInCallback,
                   crashed, ReceivedMessagePayloadPtr>>

\* execOverridePayload: copies InPayload over the struct behind
\* ReceivedMessagePayloadPtr when the pointer is not null and the wildcard's
\* type is MessageStructType
execOverridePayload(Action, StructProp, InPayload) ==
    LET Noted == IF StructProp /= NoObject /\ StructProp = MessageStructType(Action)
                 THEN [stack EXCEPT ![Depth].overrode = InPayload]
                 ELSE stack
    IN IF /\ Action \in DOMAIN ReceivedMessagePayloadPtr
          /\ StructProp /= NoObject
          /\ StructProp = MessageStructType(Action)
       THEN [Noted EXCEPT ![ReceivedMessagePayloadPtr[Action]].Payload = InPayload]
       ELSE Noted

\* a handler calls OverridePayload on the action that delivers to it
OverridePayload(StructProp, InPayload) ==
    /\ Handling
    /\ stack' = execOverridePayload(Delivering, StructProp, InPayload)
    /\ UNCHANGED <<gvars, wvars, handles, nextCallback, destroyed, registeredInCallback,
                   crashed, ReceivedMessagePayloadPtr>>

\* the blueprint object that created the action is destroyed, from outside
\* any broadcast or as the last thing its own handler does
DestroyOwner(Action) ==
    /\ ~crashed
    /\ Depth = 0 \/ (Handling /\ Action = Delivering)
    /\ Action \in 1..(nextCallback - 1)
    /\ IsBound(Action)
    /\ destroyed' = destroyed \cup {OwnerOf(Action)}
    /\ UNCHANGED <<gvars, wvars, stack, handles, nextCallback, registeredInCallback,
                   crashed, ReceivedMessagePayloadPtr>>

\* HandleMessageReceived from the return of OnMessageReceived.Broadcast on:
\* "ReceivedMessagePayloadPtr = nullptr", then SetReadyToDestroy, which is
\* ListenerHandle.Unregister(), when the delegate has no handler left
HandleMessageReceivedEnd ==
    /\ ~crashed
    /\ Depth > 0
    /\ Top.phase = "callback"
    /\ Top.delivery \in {"handling", "skipped"}
    /\ ReceivedMessagePayloadPtr' =
            IF Top.delivery = "handling"
            THEN MapRemove(ReceivedMessagePayloadPtr, Delivering)
            ELSE ReceivedMessagePayloadPtr
    /\ IF IsBound(Delivering)
       THEN /\ stack' = SetTop([Top EXCEPT !.delivery = "done"])
            /\ UNCHANGED <<ListenerMap, handles>>
       ELSE LET Handle == ListenerHandle(Delivering)
            IN /\ ListenerMap' =
                    IF Handle.Subsystem = "G" /\ HandleIsValid(Handle)
                    THEN GUnregisterListenerInternal(ListenerMap, Handle.StructType,
                                                     Handle.ID)
                    ELSE ListenerMap
               /\ handles' = ReplaceHandle(Handle,
                    [(IF Handle.Subsystem = "G" THEN ClearedHandle(Handle) ELSE Handle)
                        EXCEPT !.Calls = @ + 1])
               /\ stack' = [NoteRemoved("G", UNION {GRegistered(t) \ GRegistered(t)' :
                                                        t \in DOMAIN ListenerMap})
                                EXCEPT ![Depth].delivery = "done"]
    /\ UNCHANGED <<BroadcastResultCache, wvars, nextCallback, destroyed,
                   registeredInCallback, crashed>>

\* what a handler passes to OverridePayload
Overriding(Action) == <<"overridden", Action>>

\* the wildcard types the handlers use
WildcardTypes == {"T1", "T2"}

\* Listen actions of the global router, one message type and channel.  The
\* actions are created from outside and messages are broadcast from outside;
\* the handlers read and override the payload, and the handlers of a message
\* sent from outside broadcast a message of their own.
NextAsync ==
    \/ /\ Depth = 0
       /\ nextCallback <= MaxHandles
       /\ Activate(TagA, ExactMatch, 50, NoObject)
    \/ Depth = 0 /\ nextCallback > 1 /\ GBroadcastMessageInternal(TagA, "T1", NoObject)
    \/ HandleMessageReceivedBegin
    \/ \E t \in WildcardTypes : GetPayload(t)
    \/ \E t \in WildcardTypes : Handling /\ OverridePayload(t, Overriding(Delivering))
    \/ Depth = 1 /\ Handling /\ GBroadcastMessageInternal(TagA, "T1", NoObject)
    \/ HandleMessageReceivedEnd
    \/ Depth > 0 /\ Top.delivery = "done" /\ GCallbackReturn
    \/ BroadcastReturn

SpecAsync == Init /\ [][NextAsync]_vars


\* Listen actions of the global router whose owners are destroyed, from
\* outside or by their own handler; the handlers of a message sent from
\* outside broadcast a message of their own.
NextUnbind ==
    \/ \E p \in TwoPriorities :
            /\ Depth = 0
            /\ nextCallback <= MaxHandles
            /\ Activate(TagA, ExactMatch, p, NoObject)
    \/ Depth = 0 /\ nextCallback > 1 /\ GBroadcastMessageInternal(TagA, "T1", NoObject)
    \/ HandleMessageReceivedBegin
    \/ Depth = 1 /\ Handling /\ GBroadcastMessageInternal(TagA, "T1", NoObject)
    \/ \E a \in 1..MaxHandles : DestroyOwner(a)
    \/ HandleMessageReceivedEnd
    \/ Depth > 0 /\ Top.delivery = "done" /\ GCallbackReturn
    \/ BroadcastReturn

SpecUnbind == Init /\ [][NextUnbind]_vars

\* C39 as stated: a GetPayload call with the action's struct type made while
\* the handlers of OnMessageReceived run succeeds and yields the payload of
\* the message being handled, also after a nested broadcast delivered another
\* message to the same action and returned; a call with another type fails,
\* and the action holds no payload when no message is being delivered to it.
C39_GetPayloadYieldsHandledMessage ==
    /\ \A i \in 1..Depth :
          LET Got == stack[i].got
          IN Got.StructProp /= NoObject =>
                IF Got.StructProp = AsyncPayloadType
                THEN Got.bSuccess /\ Got.OutPayload = Got.Message
                ELSE ~Got.bSuccess
    /\ \A a \in DOMAIN ReceivedMessagePayloadPtr :
          \E i \in 1..Depth :
              /\ stack[i].phase = "callback"
              /\ stack[i].delivery = "handling"
              /\ stack[i].invoked[Len(stack[i].invoked)] = a

\* C31 as stated: an OverridePayload call with the action's struct type made
\* while the action handles a message overwrites the payload of that
\* message in place, so that the later listeners of the broadcast and its
\* sender see the overriding value; without such a call the payload stays
\* what the sender passed.
C31_OverrideReplacesPayloadInPlace ==
    \A i \in 1..Depth :
        stack[i].Payload = IF stack[i].overrode = NoObject
                           THEN SentPayload(i)
                           ELSE stack[i].overrode


\* the listen actions whose callback is registered with the global router
RegisteredActions == UNION {GRegistered(t) : t \in DOMAIN ListenerMap}

\* C40: a listen action whose OnMessageReceived has no handler left when a
\* delivery to it ends has unregistered its own listener by the end of that
\* delivery; the broadcast in flight still invokes every listener of its
\* snapshot, and no broadcast that starts later invokes the action.
C40_UnboundActionUnregistersItself ==
    \A i \in 1..Depth :
        LET f == stack[i] IN
        /\ (f.phase = "callback" /\ f.delivery = "done"
                /\ OwnerOf(f.invoked[Len(f.invoked)]) \in destroyed)
              => f.invoked[Len(f.invoked)] \notin RegisteredActions
        /\ f.phase = "return" => f.liveAtStart \subseteq Range(f.invoked)
        /\ \A a \in f.unregisteredAtStart :
              a \notin f.liveAtStart /\ a \notin Range(f.invoked)

\* an action whose owner its own handler destroyed was the first listener of
\* a broadcast, the broadcast went on to a second listener, and the message
\* that one broadcasts is not delivered to the action
C40_Witness ==
    /\ Depth > 1
    /\ \E a \in stack[2].unregisteredAtStart :
          /\ OwnerOf(a) \in destroyed
          /\ a \notin stack[1].unregisteredAtStart
          /\ Len(stack[1].invoked) > 1
          /\ stack[1].invoked[1] = a
          /\ a \notin RegisteredActions
    /\ stack[2].invoked /= <<>>

====
